---------------------------- MODULE Spec2Model ----------------------------
(***************************************************************************)
(* HybridBinauralProcessor (src/js/binaural2.js), the audio worklet that   *)
(* renders the dual-band binaural signal, as a state machine: the message  *)
(* handler port.onmessage and the per-sample body of process().            *)
(*                                                                         *)
(* Numbers.  A JavaScript number is modelled by an exact rational <<n, d>> *)
(* in lowest terms with d > 0; NaN (what arithmetic on an out-of-range     *)
(* typed-array read, undefined, produces) is <<0, 0>>.  IEEE rounding is   *)
(* not modelled.  Math.sin and Math.cos are exact at the multiples of a    *)
(* quarter turn and linear in between; Math.exp(y) is 1/(1-y) for y <= 0.  *)
(* Angles (isoPhase1, isoPhase2) are kept in turns, i.e. divided by 2*pi.  *)
(*                                                                         *)
(* Scale.  sampleRate is a global of the host; the table size and the      *)
(* constructor's default frequencies are scaled down with it so that the   *)
(* default increments stay well below one table length per sample, as at   *)
(* 44.1 kHz.                                                               *)
(***************************************************************************)
EXTENDS Integers, Sequences, FiniteSets, TLC

\* ------------------------------------------------------------ bounds
\* the host's sample rate (AudioWorkletGlobalScope.sampleRate)
sampleRate == 20
\* samples rendered, and messages handled, in one behaviour
MaxSamples == 7
MaxMsgs == 2
\* exact arithmetic is carried on while the denominators of the processor's
\* numbers have at most MaxBits bits in all
MaxBits == 22

\* ------------------------------------------------------- arithmetic
Abs(i) == IF i < 0 THEN -i ELSE i

\* the one element of a set of one: { e(w) : w \in {world} } computes the value an
\* operation is given once, however often e reads it
Only(S) == CHOOSE x \in S : TRUE

\* the greatest common divisor of two naturals
Euclid[a \in Nat, b \in Nat] == IF b = 0 THEN a ELSE Euclid[b, a % b]
GCD(a, b) == Euclid[a, b]

NaN == <<0, 0>>
IsNaN(a) == a[2] = 0

Norm(n, d) ==
    IF d = 0 THEN NaN
    ELSE LET g == GCD(Abs(n), Abs(d))
             s == IF d < 0 THEN -1 ELSE 1
         IN  <<(s * n) \div g, (s * d) \div g>>

Q(n, d) == Norm(n, d)
I(n) == <<n, 1>>

RAdd(a, b) ==
    IF IsNaN(a) \/ IsNaN(b) THEN NaN
    ELSE LET g == GCD(a[2], b[2])
         IN  Norm(a[1] * (b[2] \div g) + b[1] * (a[2] \div g), (a[2] \div g) * b[2])

RNeg(a) == <<-a[1], a[2]>>
RSub(a, b) == RAdd(a, RNeg(b))

RMul(a, b) ==
    IF IsNaN(a) \/ IsNaN(b) THEN NaN
    ELSE LET g1 == GCD(Abs(a[1]), b[2])
             g2 == GCD(Abs(b[1]), a[2])
         IN  Norm((a[1] \div g1) * (b[1] \div g2), (a[2] \div g2) * (b[2] \div g1))

\* a / b; the source divides only by values it has tested to be positive
RDiv(a, b) ==
    IF IsNaN(a) \/ IsNaN(b) \/ b[1] = 0 THEN NaN
    ELSE RMul(a, Norm(b[2], b[1]))

\* comparisons are false on NaN, as in JavaScript
RLt(a, b) ==
    /\ ~IsNaN(a) /\ ~IsNaN(b)
    /\ LET g == GCD(a[2], b[2])
       IN  a[1] * (b[2] \div g) < b[1] * (a[2] \div g)
RLe(a, b) == ~IsNaN(a) /\ ~IsNaN(b) /\ ~RLt(b, a)
RGt(a, b) == RLt(b, a)
RGe(a, b) == RLe(b, a)

RAbs(a) == <<Abs(a[1]), a[2]>>
\* Math.max, Math.min: NaN when an argument is NaN
RMax(a, b) == IF IsNaN(a) \/ IsNaN(b) THEN NaN ELSE IF RLt(a, b) THEN b ELSE a
RMin(a, b) == IF IsNaN(a) \/ IsNaN(b) THEN NaN ELSE IF RLt(b, a) THEN b ELSE a

\* Math.floor
MathFloor(a) == a[1] \div a[2]
\* x | 0 (ToInt32): truncation toward zero
ToInt32(a) == IF a[1] >= 0 THEN a[1] \div a[2] ELSE -((-a[1]) \div a[2])
\* Math.ceil
MathCeil(a) == -((-a[1]) \div a[2])

\* Math.exp
MathExp(y) == IF RLe(y, I(0)) THEN RDiv(I(1), RSub(I(1), y)) ELSE RAdd(I(1), y)

\* sin at k quarter turns
SinQuarter(k) == CASE k % 4 = 0 -> I(0) [] k % 4 = 1 -> I(1) [] k % 4 = 2 -> I(0) [] OTHER -> I(-1)

\* Math.sin(2*pi*x), x in turns
SinTurns(x) ==
    LET q == RMul(I(4), x)
        k == MathFloor(q)
        f == RSub(q, I(k))
    IN  RAdd(SinQuarter(k), RMul(RSub(SinQuarter(k + 1), SinQuarter(k)), f))

\* Math.cos(2*pi*x), x in turns
CosTurns(x) == SinTurns(RAdd(x, Q(1, 4)))

\* ------------------------------------------------------ constructor
tableSize == 4

\* this.table[i] = Math.sin((i / tableSize) * 2 * pi), i = 0..tableSize
table == [i \in 0..tableSize |-> SinTurns(Q(i, tableSize))]

\* a typed-array read: undefined outside the array
TableAt(i) == IF i \in 0..tableSize THEN table[i] ELSE NaN

\* new Float32Array(Math.ceil(sampleRate * 0.2))
delayBufferLength == MathCeil(RMul(I(sampleRate), Q(2, 10)))

BufferAt(buf, i) == IF i \in 0..(Len(buf) - 1) THEN buf[i + 1] ELSE NaN

Constructor ==
    [ phase1L |-> I(0), phase1R |-> I(0),
      freq1L |-> I(2), freq1R |-> I(3),
      targetFreq1L |-> I(2), targetFreq1R |-> I(3),
      phase2L |-> I(0), phase2R |-> I(0),
      freq2L |-> I(1), freq2R |-> Q(3, 2),
      targetFreq2L |-> I(1), targetFreq2R |-> Q(3, 2),
      band2Enabled |-> FALSE,
      band2Mix |-> Q(1, 2), targetBand2Mix |-> Q(1, 2),
      isoPhase1 |-> I(0), isoPhase2 |-> I(0), isoEnabled |-> FALSE,
      interleaveMs |-> I(0), targetInterleaveMs |-> I(0),
      delayBuffer |-> [i \in 1..delayBufferLength |-> I(0)],
      delayWritePos |-> 0,
      delaySamples |-> I(0), targetDelaySamples |-> I(0),
      gain |-> I(0), gainStart |-> I(0), gainEnd |-> I(0),
      gainRampSamples |-> I(0), gainRampProgress |-> 0,
      freqSmooth |-> Q(1, 100) ]


\* ------------------------------------------------------ port.onmessage
\* (a full-state replace: an absent field falls back to the constructor's value)
Merge_Replace(this, d, src, dst) ==
    [this EXCEPT ![dst] = IF src \in DOMAIN d THEN d[src] ELSE Constructor[dst]]

\* (a target that has been set is kept: a newer message does not supersede it)
Merge_FirstWins(this, d, src, dst) ==
    IF src \in DOMAIN d /\ this[dst] = Constructor[dst]
    THEN [this EXCEPT ![dst] = d[src]] ELSE this

\* if (d.src !== undefined) this.dst = d.src
Merge(this, d, src, dst) ==
    IF src \in DOMAIN d THEN [this EXCEPT ![dst] = d[src]] ELSE this

\* (a new delay also restarts the delay line: cursor and smoothed delay reset)
MergeInterleave_Flush(this, d) ==
    IF "interleaveMs" \in DOMAIN d
    THEN [this EXCEPT !.targetInterleaveMs = d.interleaveMs,
                      !.targetDelaySamples =
                          I(MathFloor(RDiv(RMul(I(sampleRate), d.interleaveMs), I(1000)))),
                      !.delayWritePos = 0,
                      !.delaySamples = I(0)]
    ELSE this

\* if (d.interleaveMs !== undefined) { ... }
MergeInterleave(this, d) ==
    IF "interleaveMs" \in DOMAIN d
    THEN [this EXCEPT !.targetInterleaveMs = d.interleaveMs,
                      !.targetDelaySamples =
                          I(MathFloor(RDiv(RMul(I(sampleRate), d.interleaveMs), I(1000))))]
    ELSE this

\* Math.max(0, Math.min(1, d.gain))
ClampGain(g) == RMax(I(0), RMin(I(1), g))

\* (d.gainSmooth || 0.01) * sampleRate
RampSamples(d) ==
    RMul(IF "gainSmooth" \in DOMAIN d /\ d.gainSmooth[1] # 0 THEN d.gainSmooth ELSE Q(1, 100),
         I(sampleRate))

\* (the new ramp starts from the previous target instead of the current gain)
MergeGain_FromTarget(this, d) ==
    IF "gain" \in DOMAIN d
    THEN [this EXCEPT !.gainStart = this.gainEnd,
                      !.gainEnd = ClampGain(d.gain),
                      !.gainRampSamples = RampSamples(d),
                      !.gainRampProgress = 0]
    ELSE this

\* (a gain message without gainSmooth takes the ramp time from this.freqSmooth)
MergeGain_SharedSmooth(this, d) ==
    IF "gain" \in DOMAIN d
    THEN [this EXCEPT !.gainStart = this.gain,
                      !.gainEnd = ClampGain(d.gain),
                      !.gainRampSamples =
                          RMul(IF "gainSmooth" \in DOMAIN d /\ d.gainSmooth[1] # 0
                               THEN d.gainSmooth ELSE this.freqSmooth,
                               I(sampleRate)),
                      !.gainRampProgress = 0]
    ELSE this

\* if (d.gain !== undefined) { ... }
MergeGain(this, d) ==
    IF "gain" \in DOMAIN d
    THEN [this EXCEPT !.gainStart = this.gain,
                      !.gainEnd = ClampGain(d.gain),
                      !.gainRampSamples = RampSamples(d),
                      !.gainRampProgress = 0]
    ELSE this

HandleMessage(this, d) ==
    LET m1 == Merge(this, d, "freq1L", "targetFreq1L")
        m2 == Merge(m1, d, "freq1R", "targetFreq1R")
        m3 == Merge(m2, d, "freq2L", "targetFreq2L")
        m4 == Merge(m3, d, "freq2R", "targetFreq2R")
        m5 == Merge(m4, d, "band2Enabled", "band2Enabled")
        m6 == Merge(m5, d, "band2Mix", "targetBand2Mix")
        m7 == Merge(m6, d, "isoEnabled", "isoEnabled")
        m8 == MergeInterleave(m7, d)
        m9 == Merge(m8, d, "freqSmooth", "freqSmooth")
    IN  MergeGain(m9, d)

\* ------------------------------------------------------------ process
\* (the smoothing time is not clamped from below)
FSmooth_NoClamp(freqSmooth) ==
    RSub(I(1), MathExp(RDiv(I(-5), RMul(I(sampleRate), freqSmooth))))

\* 1 - Math.exp(-5 / (sampleRate * Math.max(0.001, this.freqSmooth)))
FSmooth(freqSmooth) ==
    RSub(I(1), MathExp(RDiv(I(-5), RMul(I(sampleRate), RMax(Q(1, 1000), freqSmooth)))))

\* 1 - Math.exp(-2 / (sampleRate * 0.1))
SlowSmooth == RSub(I(1), MathExp(RDiv(I(-2), RMul(I(sampleRate), Q(1, 10)))))

\* value += (target - value) * coef
Smooth(value, target, coef) == RAdd(value, RMul(RSub(target, value), coef))

\* (the mix and the delay are smoothed with the frequency coefficient)
MixDelaySmooth_FreqCoef(this) ==
    [ band2Mix |-> Smooth(this.band2Mix, this.targetBand2Mix, FSmooth(this.freqSmooth)),
      delaySamples |-> Smooth(this.delaySamples, this.targetDelaySamples,
                              FSmooth(this.freqSmooth)) ]

\* this.band2Mix += (this.targetBand2Mix - this.band2Mix) * slowSmooth;
\* this.delaySamples += (this.targetDelaySamples - this.delaySamples) * slowSmooth
MixDelaySmooth(this) ==
    [ band2Mix |-> Smooth(this.band2Mix, this.targetBand2Mix, SlowSmooth),
      delaySamples |-> Smooth(this.delaySamples, this.targetDelaySamples, SlowSmooth) ]

\* the linear gain ramp: <<gainRampProgress, gain>> after the sample
GainRamp(this) ==
    IF RLt(I(this.gainRampProgress), this.gainRampSamples)
    THEN LET t == RDiv(I(this.gainRampProgress + 1), this.gainRampSamples)
         IN  <<this.gainRampProgress + 1,
               RAdd(this.gainStart, RMul(RSub(this.gainEnd, this.gainStart), t))>>
    ELSE <<this.gainRampProgress, this.gainEnd>>

\* interpolated wavetable lookup: table[i] + (table[i + 1] - table[i]) * f
Oscillator(phase) ==
    LET i == ToInt32(phase)
        f == RSub(phase, I(i))
    IN  RAdd(TableAt(i), RMul(RSub(TableAt(i + 1), TableAt(i)), f))

\* 0.5 * (1 + Math.cos(phase + Math.PI)), phase in turns
isochronicEnvelope(phase) == RMul(Q(1, 2), RAdd(I(1), CosTurns(RAdd(phase, Q(1, 2)))))

\* (the sum is not normalized)
MixBands_NoNorm(s1, s2, band2Enabled, band2Mix) == RAdd(s1, RMul(s2, band2Mix))

\* mix = s1 + s2 * band2Mix, normalized by 1 / (1 + band2Mix) when both bands are active
MixBands(s1, s2, band2Enabled, band2Mix) ==
    LET mix == RAdd(s1, RMul(s2, band2Mix))
    IN  IF band2Enabled /\ RGt(band2Mix, I(0))
        THEN RMul(mix, RDiv(I(1), RAdd(I(1), band2Mix)))
        ELSE mix

\* readPos = delayWritePos - floor(delaySamples); if (readPos < 0) readPos += length
ReadPos(writePos, delaySamples, length) ==
    LET readPos == writePos - MathFloor(delaySamples)
    IN  IF readPos < 0 THEN readPos + length ELSE readPos

\* (the stage always runs, and reads the buffer before writing the sample)
DelayStage_ReadBeforeWrite(this, delaySamples, mixR) ==
    LET length == Len(this.delayBuffer)
        readPos == ReadPos(this.delayWritePos, delaySamples, length)
    IN  [ delayed |-> TRUE, readPos |-> readPos,
          buffer |-> [this.delayBuffer EXCEPT ![this.delayWritePos + 1] = mixR],
          writePos |-> (this.delayWritePos + 1) % length,
          outR |-> BufferAt(this.delayBuffer, readPos) ]

\* if (this.delaySamples > 0) { delayBuffer[delayWritePos] = mixR; ...;
\* mixR = delayBuffer[readPos]; delayWritePos = (delayWritePos + 1) % length }
DelayStage(this, delaySamples, mixR) ==
    LET delayed == RGt(delaySamples, I(0))
        length == Len(this.delayBuffer)
        written == IF delayed /\ this.delayWritePos \in 0..(length - 1)
                   THEN [this.delayBuffer EXCEPT ![this.delayWritePos + 1] = mixR]
                   ELSE this.delayBuffer
        readPos == ReadPos(this.delayWritePos, delaySamples, length)
    IN  [ delayed |-> delayed, readPos |-> readPos, buffer |-> written,
          writePos |-> IF delayed THEN (this.delayWritePos + 1) % length
                       ELSE this.delayWritePos,
          outR |-> IF delayed THEN BufferAt(written, readPos) ELSE mixR ]

\* (the phase is reset to 0 at the wrap)
AdvancePhase_Reset(phase, freq) ==
    LET p == RAdd(phase, RMul(freq, Q(tableSize, sampleRate)))
    IN  IF RGe(p, I(tableSize)) THEN I(0) ELSE p

\* phase += freq * scale; if (phase >= N) phase -= N
AdvancePhase(phase, freq) ==
    LET p == RAdd(phase, RMul(freq, Q(tableSize, sampleRate)))
    IN  IF RGe(p, I(tableSize)) THEN RSub(p, I(tableSize)) ELSE p

\* isoPhase += (2 * pi * beat) / sampleRate; if (isoPhase >= 2 * pi) isoPhase -= 2 * pi
AdvanceIso(isoPhase, beat) ==
    LET p == RAdd(isoPhase, RDiv(beat, I(sampleRate)))
    IN  IF RGe(p, I(1)) THEN RSub(p, I(1)) ELSE p

\* one iteration of the sample loop of process(): the processor after it and
\* the values of the iteration's locals
ProcessSample(this) ==
    LET fSmooth == FSmooth(this.freqSmooth)
        freq1L == Smooth(this.freq1L, this.targetFreq1L, fSmooth)
        freq1R == Smooth(this.freq1R, this.targetFreq1R, fSmooth)
        freq2L == Smooth(this.freq2L, this.targetFreq2L, fSmooth)
        freq2R == Smooth(this.freq2R, this.targetFreq2R, fSmooth)
        slow == MixDelaySmooth(this)
        band2Mix == slow.band2Mix
        delaySamples == slow.delaySamples
        ramp == GainRamp(this)
        gain == ramp[2]
        beat1 == RSub(freq1R, freq1L)
        beat2 == RSub(freq2R, freq2L)
        iso1 == IF this.isoEnabled THEN isochronicEnvelope(this.isoPhase1) ELSE I(1)
        iso2 == IF this.isoEnabled THEN isochronicEnvelope(this.isoPhase2) ELSE I(1)
        s1L == RMul(Oscillator(this.phase1L), iso1)
        s1R == RMul(Oscillator(this.phase1R), iso1)
        s2L == IF this.band2Enabled THEN RMul(Oscillator(this.phase2L), iso2) ELSE I(0)
        s2R == IF this.band2Enabled THEN RMul(Oscillator(this.phase2R), iso2) ELSE I(0)
        mixL == MixBands(s1L, s2L, this.band2Enabled, band2Mix)
        mixR == MixBands(s1R, s2R, this.band2Enabled, band2Mix)
        stage == DelayStage(this, delaySamples, mixR)
        delayed == stage.delayed
        readPos == stage.readPos
        outR == stage.outR
    IN  [ this |->
            [this EXCEPT
               !.freq1L = freq1L, !.freq1R = freq1R,
               !.freq2L = freq2L, !.freq2R = freq2R,
               !.band2Mix = band2Mix, !.delaySamples = delaySamples,
               !.gainRampProgress = ramp[1], !.gain = gain,
               !.delayBuffer = stage.buffer,
               !.delayWritePos = stage.writePos,
               !.phase1L = AdvancePhase(this.phase1L, freq1L),
               !.phase1R = AdvancePhase(this.phase1R, freq1R),
               !.phase2L = IF this.band2Enabled THEN AdvancePhase(this.phase2L, freq2L)
                           ELSE this.phase2L,
               !.phase2R = IF this.band2Enabled THEN AdvancePhase(this.phase2R, freq2R)
                           ELSE this.phase2R,
               !.isoPhase1 = IF this.isoEnabled THEN AdvanceIso(this.isoPhase1, beat1)
                             ELSE this.isoPhase1,
               !.isoPhase2 = IF this.isoEnabled /\ this.band2Enabled
                             THEN AdvanceIso(this.isoPhase2, beat2)
                             ELSE this.isoPhase2],
          s1L |-> s1L, s1R |-> s1R, s2L |-> s2L, s2R |-> s2R,
          mixL |-> mixL, mixR |-> mixR,
          delayed |-> delayed, readPos |-> readPos,
          L |-> RMul(mixL, gain), R |-> RMul(outR, gain), delayedR |-> outR ]

\* ------------------------------------------------------- state machine
VARIABLES
    this,             \* the processor's fields
    out,              \* the locals and outputs of the last sample rendered
    hist,             \* the pre-delay right-channel mix of every sample rendered
    last,             \* "init", "message" or "sample": the last step taken
    msg,              \* the last message handled (e.data)
    nMsgs,            \* messages handled
    sinceGain,        \* samples rendered since the last gain message
    sinceInterleave,  \* samples rendered since the last interleaveMs message
    engine,           \* the host-side engine: kind, node (created by init), isPlaying
    audioState,       \* the page's audioState.binaural2
    call,             \* the last host-side call that posted a message, with its arguments
    rsvp,             \* the page's RSVPEngine
    page,             \* the page: isSnapPause, timeouts, the other engines, what was shown
    spiral            \* the page's SpiralEffect

vars == <<this, out, hist, last, msg, nMsgs, sinceGain, sinceInterleave,
          engine, audioState, call, rsvp, page, spiral>>

\* the variables of script playback
playVars == <<rsvp, page, spiral>>

RECURSIVE BitLen(_)
BitLen(n) == IF n <= 1 THEN 0 ELSE 1 + BitLen((n + 1) \div 2)

Smoothed == {"freq1L", "freq1R", "freq2L", "freq2R", "band2Mix", "delaySamples"}
Phases == {"phase1L", "phase1R", "phase2L", "phase2R"}

RECURSIVE SumBits(_, _)
SumBits(s, fields) ==
    IF fields = {} THEN 0
    ELSE LET f == CHOOSE x \in fields : TRUE
         IN  BitLen(s[f][2]) + SumBits(s, fields \ {f})

\* the numbers of the next sample stay within TLC's integers
\* the denominator the gain of the next sample can have
GainBits(s) ==
    IF RLt(I(s.gainRampProgress), s.gainRampSamples)
    THEN BitLen(s.gainStart[2]) + BitLen(s.gainEnd[2]) + BitLen(s.gainRampSamples[1])
    ELSE BitLen(s.gainEnd[2])

Representable(s) ==
    SumBits(s, {"phase1L", "phase2L", "isoPhase1", "isoPhase2", "band2Mix",
                "delaySamples"}) + GainBits(s) <= MaxBits
    /\ SumBits(s, {"phase1R", "phase2R", "isoPhase1", "isoPhase2", "band2Mix",
                   "delaySamples"}) + GainBits(s) <= MaxBits
    /\ \A f \in Smoothed : BitLen(s[f][2]) <= MaxBits \div 2

Observers ==
    /\ out = [ s1L |-> I(0), s1R |-> I(0), s2L |-> I(0), s2R |-> I(0),
               mixL |-> I(0), mixR |-> I(0), delayed |-> FALSE, readPos |-> 0,
               delayedR |-> I(0), L |-> I(0), R |-> I(0) ]
    /\ hist = <<>>
    /\ last = "init"
    /\ msg = [x \in {} |-> 0]
    /\ nMsgs = 0
    /\ sinceGain = 0
    /\ sinceInterleave = 0
    /\ call = [op |-> "none"]

\* null
null == <<>>

\* new HybridBinauralEngine(): this.node = null, this.isPlaying = false
EngineConstructor(kind) == [kind |-> kind, node |-> FALSE, isPlaying |-> FALSE]

\* audioState.binaural2 as the page declares it (the default carrier and beat are
\* scaled like the constructor's frequencies)
AudioStateInit ==
    [ active |-> FALSE, carrier1 |-> Q(5, 2), beat1 |-> I(1), carrier2 |-> null,
      beat2 |-> null, volume |-> I(0), iso |-> FALSE, interleave |-> I(0),
      band2Mix |-> Q(1, 2) ]

\* new RSVPEngine({ wpm: 300, ... }); timer is the id of the last timeout, which is
\* positive, or 0 for null
RSVPConstructor ==
    [ words |-> <<>>, currentIndex |-> 0, wpm |-> 300, manualWpm |-> 300,
      followScript |-> TRUE, isPlaying |-> FALSE, timer |-> 0 ]

\* new SpiralEffect(canvas): the fade state and the loop; frame tells whether an
\* animation frame is requested (rotation, colour and the canvas are display only)
SpiralConstructor ==
    [ isRunning |-> FALSE, opacity |-> Q(3, 10), speed |-> I(1),
      targetOpacity |-> I(0), currentOpacity |-> I(0), fadeSpeed |-> I(1),
      frame |-> FALSE ]

\* the page after DOMContentLoaded: isSnapPause, the engines binaural and noise
\* (node, isPlaying) and their audioState entries, whether the subliminals flash
\* (subliminals.isActive), the pending timeouts in the order
\* they were set, the clock in ms; and what the page did: the words shown, the
\* command callbacks invoked, the calls made to the audio engines; and what the
\* user did: how many actions, and whether the last one started playback ("play")
\* or stopped it ("stop")
PageInit ==
    [ isSnapPause |-> FALSE,
      binaural |-> [node |-> FALSE, isPlaying |-> FALSE],
      noise |-> [node |-> FALSE, isPlaying |-> FALSE],
      audio |-> [ binaural |-> [ active |-> FALSE, carrier |-> I(300), beat |-> I(10),
                                 volume |-> I(0) ],
                  noise |-> [active |-> FALSE, volume |-> I(0)] ],
      timers |-> <<>>, nextId |-> 1, now |-> 0,
      subliminals |-> FALSE,
      script |-> "", shown |-> <<>>, fired |-> <<>>, sent |-> <<>>,
      completed |-> 0, userActs |-> 0, lastAct |-> "none" ]

\* nothing is loaded and nothing plays
PlaybackInit ==
    /\ rsvp = RSVPConstructor
    /\ page = PageInit
    /\ spiral = SpiralConstructor

Init ==
    /\ this = Constructor
    /\ engine = EngineConstructor("hybrid")
    /\ audioState = AudioStateInit
    /\ Observers
    /\ PlaybackInit

\* port.onmessage = (e) => { const d = e.data; ... }: the processor handles d
Deliver(d) ==
    /\ nMsgs < MaxMsgs
    /\ this' = HandleMessage(this, d)
    /\ nMsgs' = nMsgs + 1
    /\ last' = "message"
    /\ msg' = d
    /\ sinceGain' = IF "gain" \in DOMAIN d THEN 0 ELSE sinceGain
    /\ sinceInterleave' = IF "interleaveMs" \in DOMAIN d THEN 0 ELSE sinceInterleave
    /\ UNCHANGED <<out, hist>>

\* a message posted straight to the port
OnMessage(d) ==
    /\ Deliver(d)
    /\ UNCHANGED <<engine, audioState, call, rsvp, page, spiral>>

\* one iteration of the loop of process(inputs, outputs); a render quantum of n
\* frames is n of these steps, and messages are handled between quanta only
Sample ==
    /\ Len(hist) < MaxSamples
    /\ Representable(this)
    /\ \E r \in {ProcessSample(this)} :
           /\ this' = r.this
           /\ out' = [ s1L |-> r.s1L, s1R |-> r.s1R, s2L |-> r.s2L, s2R |-> r.s2R,
                       mixL |-> r.mixL, mixR |-> r.mixR, delayed |-> r.delayed,
                       readPos |-> r.readPos, delayedR |-> r.delayedR,
                       L |-> r.L, R |-> r.R ]
           /\ hist' = Append(hist, r.mixR)
    /\ last' = "sample"
    /\ sinceGain' = sinceGain + 1
    /\ sinceInterleave' = sinceInterleave + 1
    /\ UNCHANGED <<msg, nMsgs, engine, audioState, call, rsvp, page, spiral>>

\* ------------------------------------------------------------- inputs
\* gain targets (in and out of [0, 1]) and ramp durations in seconds: 2 samples,
\* 1.5 samples, half a sample and a negative duration
GainValues == {I(0), Q(1, 2), Q(4, 5), I(2), I(-1)}
GainSmoothValues == {Q(1, 10), Q(3, 40), Q(1, 40), I(-1)}

\* fadeTo(volume, seconds), stop(fade)
GainMessages ==
    {[gain |-> g, gainSmooth |-> t] : g \in GainValues, t \in GainSmoothValues}

\* <<carrier, beat>>: left = carrier - beat / 2, right = carrier + beat / 2; a plain
\* pair, a negative beat, a carrier below beat / 2 and a carrier above sampleRate
CarrierBeats == {<<I(3), I(2)>>, <<I(3), I(-2)>>, <<I(1), I(4)>>, <<I(25), I(2)>>}
\* frequency glide times in seconds, with 0 and a negative time
FreqSmoothValues == {Q(1, 4), Q(3, 4), I(0), Q(-1, 2)}

FreqL(cb) == RSub(cb[1], RDiv(cb[2], I(2)))
FreqR(cb) == RAdd(cb[1], RDiv(cb[2], I(2)))

\* setFrequencies(carrier1, beat1, carrier2, beat2, seconds)
FreqMessages ==
    {[freq1L |-> FreqL(cb), freq1R |-> FreqR(cb), freqSmooth |-> t] :
        cb \in CarrierBeats, t \in FreqSmoothValues}
    \cup {[freq1L |-> I(2), freq1R |-> I(3), freqSmooth |-> Q(1, 4),
           freq2L |-> FreqL(cb), freq2R |-> FreqR(cb), band2Enabled |-> TRUE] :
            cb \in CarrierBeats}

\* setIsoEnabled(enabled) and the band2Enabled flag alone
FlagMessages ==
    {[isoEnabled |-> b] : b \in BOOLEAN} \cup {[band2Enabled |-> b] : b \in BOOLEAN}

\* interleaveMs: 0, 1, 2 and 4 samples (4 is the buffer length), 10 samples, negative
InterleaveValues == {I(0), I(50), I(100), I(200), I(500), I(-100)}
InterleaveMessages == {[interleaveMs |-> v] : v \in InterleaveValues}

\* setBand2Mix(mix), and a mix target outside [0, 1]
MixMessages == {[band2Mix |-> m] : m \in {I(0), Q(1, 4), I(1), I(2)}}

\* start(carrier1, beat1, carrier2, beat2, options): band 2 absent, and present
StartMessages ==
    { [freq1L |-> I(2), freq1R |-> I(4), band2Enabled |-> FALSE, isoEnabled |-> FALSE,
       interleaveMs |-> I(0), band2Mix |-> Q(1, 2), gain |-> Q(1, 2),
       freqSmooth |-> Q(1, 4), gainSmooth |-> Q(1, 10)],
      [freq1L |-> I(2), freq1R |-> I(4), band2Enabled |-> TRUE, isoEnabled |-> TRUE,
       interleaveMs |-> I(100), band2Mix |-> Q(1, 4), gain |-> Q(4, 5),
       freqSmooth |-> Q(1, 4), gainSmooth |-> Q(1, 10),
       freq2L |-> I(1), freq2R |-> I(2)] }

\* messages of one field each, and a gain message without gainSmooth
FieldMessages ==
    { [freq1L |-> I(4)], [freq1R |-> I(1)], [freq2L |-> I(2)], [freq2R |-> I(3)],
      [freqSmooth |-> Q(3, 4)], [freqSmooth |-> I(0)], [freqSmooth |-> Q(-1, 2)],
      [gainSmooth |-> Q(1, 10)], [gain |-> I(1)] }

Messages ==
    StartMessages \cup FieldMessages \cup FlagMessages
    \cup {[interleaveMs |-> I(100)], [band2Mix |-> Q(1, 4)],
          [gain |-> I(0), gainSmooth |-> Q(1, 10)],
          [freq1L |-> I(2), freq1R |-> I(4), freqSmooth |-> Q(1, 4)]}

\* ---------------------------------------------------- specifications
\* every kind of message interleaved with samples
Next ==
    \/ \E d \in Messages : OnMessage(d)
    \/ Sample

Spec == Init /\ [][Next]_vars

\* gain messages interleaved with samples
NextGain ==
    \/ \E d \in GainMessages : OnMessage(d)
    \/ Sample

SpecGain == Init /\ [][NextGain]_vars

\* frequency and flag messages interleaved with samples
NextOsc ==
    \/ \E d \in FreqMessages \cup FlagMessages : OnMessage(d)
    \/ Sample

SpecOsc == Init /\ [][NextOsc]_vars

\* delay and mix messages interleaved with samples
NextDelay ==
    \/ \E d \in InterleaveMessages \cup MixMessages : OnMessage(d)
    \/ Sample

SpecDelay == Init /\ [][NextDelay]_vars

\* the mixing stage on chosen inputs: band 2 enabled, the phases and the (settled)
\* mix weight drawn from sets that hold the peaks of the table and the ends of [0, 1]
PhaseSamples == {I(0), Q(1, 2), I(1), I(2), I(3), Q(7, 2)}
MixSamples == {I(0), Q(1, 4), Q(1, 2), I(1)}

InitMix ==
    /\ this \in {[Constructor EXCEPT !.band2Enabled = TRUE,
                                     !.phase1L = p1, !.phase2L = p2,
                                     !.phase1R = p2, !.phase2R = p1,
                                     !.band2Mix = m, !.targetBand2Mix = m] :
                     p1 \in PhaseSamples, p2 \in PhaseSamples, m \in MixSamples}
    /\ engine = EngineConstructor("hybrid")
    /\ audioState = AudioStateInit
    /\ Observers
    /\ PlaybackInit

NextMix == Sample

SpecMix == InitMix /\ [][NextMix]_vars

\* ------------------------------------------------- host-side engines
\* const { fade = 2, ... } = options: a property that is absent takes its default
Opt(options, name, default) == IF name \in DOMAIN options THEN options[name] ELSE default

\* (the volume is posted without the 0.8 ceiling)
start_NoCeiling(isPlaying, carrier1, beat1, carrier2, beat2, options) ==
    LET fade == Opt(options, "fade", I(2))
        fadeIn == Opt(options, "fadeIn", null)
        gainFade == IF isPlaying THEN fade ELSE IF fadeIn # null THEN fadeIn ELSE fade
        band2Enabled == carrier2 # null /\ beat2 # null
        m == [ freq1L |-> RSub(carrier1, RDiv(beat1, I(2))),
               freq1R |-> RAdd(carrier1, RDiv(beat1, I(2))),
               band2Enabled |-> band2Enabled,
               isoEnabled |-> Opt(options, "iso", FALSE),
               interleaveMs |-> Opt(options, "interleave", I(0)),
               band2Mix |-> Opt(options, "band2Mix", Q(1, 2)),
               gain |-> Opt(options, "volume", Q(15, 100)),
               freqSmooth |-> fade,
               gainSmooth |-> gainFade ]
    IN  IF band2Enabled
        THEN m @@ [ freq2L |-> RSub(carrier2, RDiv(beat2, I(2))),
                    freq2R |-> RAdd(carrier2, RDiv(beat2, I(2))) ]
        ELSE m

\* (the gain ramp always lasts fade)
start_FadeOnly(isPlaying, carrier1, beat1, carrier2, beat2, options) ==
    LET fade == Opt(options, "fade", I(2))
        band2Enabled == carrier2 # null /\ beat2 # null
        m == [ freq1L |-> RSub(carrier1, RDiv(beat1, I(2))),
               freq1R |-> RAdd(carrier1, RDiv(beat1, I(2))),
               band2Enabled |-> band2Enabled,
               isoEnabled |-> Opt(options, "iso", FALSE),
               interleaveMs |-> Opt(options, "interleave", I(0)),
               band2Mix |-> Opt(options, "band2Mix", Q(1, 2)),
               gain |-> RMin(Q(4, 5), Opt(options, "volume", Q(15, 100))),
               freqSmooth |-> fade,
               gainSmooth |-> fade ]
    IN  IF band2Enabled
        THEN m @@ [ freq2L |-> RSub(carrier2, RDiv(beat2, I(2))),
                    freq2R |-> RAdd(carrier2, RDiv(beat2, I(2))) ]
        ELSE m

\* HybridBinauralEngine.start(carrier1, beat1, carrier2, beat2, options): the
\* message it posts
start(isPlaying, carrier1, beat1, carrier2, beat2, options) ==
    LET fade == Opt(options, "fade", I(2))
        fadeIn == Opt(options, "fadeIn", null)
        volume == Opt(options, "volume", Q(15, 100))
        iso == Opt(options, "iso", FALSE)
        band2Mix == Opt(options, "band2Mix", Q(1, 2))
        interleave == Opt(options, "interleave", I(0))
        gainFade == IF isPlaying THEN fade ELSE IF fadeIn # null THEN fadeIn ELSE fade
        band2Enabled == carrier2 # null /\ beat2 # null
        m == [ freq1L |-> RSub(carrier1, RDiv(beat1, I(2))),
               freq1R |-> RAdd(carrier1, RDiv(beat1, I(2))),
               band2Enabled |-> band2Enabled,
               isoEnabled |-> iso,
               interleaveMs |-> interleave,
               band2Mix |-> band2Mix,
               gain |-> RMin(Q(4, 5), volume),
               freqSmooth |-> fade,
               gainSmooth |-> gainFade ]
    IN  IF band2Enabled
        THEN m @@ [ freq2L |-> RSub(carrier2, RDiv(beat2, I(2))),
                    freq2R |-> RAdd(carrier2, RDiv(beat2, I(2))) ]
        ELSE m

\* BinauralEngine.start (the dual-band engine of spiral.js): the same message
\* without isoEnabled
BinauralEngine_start(isPlaying, carrier1, beat1, carrier2, beat2, options) ==
    LET fade == Opt(options, "fade", I(2))
        fadeIn == Opt(options, "fadeIn", null)
        volume == Opt(options, "volume", Q(15, 100))
        band2Mix == Opt(options, "band2Mix", Q(1, 2))
        interleave == Opt(options, "interleave", I(0))
        gainFade == IF isPlaying THEN fade ELSE IF fadeIn # null THEN fadeIn ELSE fade
        band2Enabled == carrier2 # null /\ beat2 # null
        m == [ freq1L |-> RSub(carrier1, RDiv(beat1, I(2))),
               freq1R |-> RAdd(carrier1, RDiv(beat1, I(2))),
               band2Enabled |-> band2Enabled,
               interleaveMs |-> interleave,
               band2Mix |-> band2Mix,
               gain |-> RMin(Q(4, 5), volume),
               freqSmooth |-> fade,
               gainSmooth |-> gainFade ]
    IN  IF band2Enabled
        THEN m @@ [ freq2L |-> RSub(carrier2, RDiv(beat2, I(2))),
                    freq2R |-> RAdd(carrier2, RDiv(beat2, I(2))) ]
        ELSE m

\* setFrequencies(carrier1, beat1, carrier2, beat2, seconds)
setFrequencies(carrier1, beat1, carrier2, beat2, seconds) ==
    LET m == [ freq1L |-> RSub(carrier1, RDiv(beat1, I(2))),
               freq1R |-> RAdd(carrier1, RDiv(beat1, I(2))),
               freqSmooth |-> seconds ]
    IN  IF carrier2 # null /\ beat2 # null
        THEN m @@ [ freq2L |-> RSub(carrier2, RDiv(beat2, I(2))),
                    freq2R |-> RAdd(carrier2, RDiv(beat2, I(2))),
                    band2Enabled |-> TRUE ]
        ELSE m

\* setIsoEnabled(enabled)
setIsoEnabled(enabled) == [isoEnabled |-> enabled]

\* setInterleave(ms): { interleaveMs: Math.max(0, Math.min(200, ms)) }
setInterleave(ms) == [interleaveMs |-> RMax(I(0), RMin(I(200), ms))]

\* setBand2Mix(mix): { band2Mix: Math.max(0, Math.min(1, mix)) }
setBand2Mix(mix) == [band2Mix |-> RMax(I(0), RMin(I(1), mix))]

\* fadeTo(volume, seconds): { gain: Math.min(0.8, Math.max(0, volume)), gainSmooth }
fadeTo(volume, seconds) ==
    [gain |-> RMin(Q(4, 5), RMax(I(0), volume)), gainSmooth |-> seconds]

\* stop(fade): { gain: 0, gainSmooth: fade }
stop(fade) == [gain |-> I(0), gainSmooth |-> fade]

\* ------------------------------------------------------ parseCommand
\* one part of args.trim().split(/\s+/): key is the prefix the part starts with
\* ("fadeIn:", "fade:", "vol:", "interleave:", "mix:"), the part itself when it is
\* "iso" or "off", and "" otherwise; val is what parseFloat reads in the rest of the
\* part (NaN when it reads no number)
Token(key, val) == [key |-> key, val |-> val]

\* parseFloat(...) || 2
OrTwo(v) == IF IsNaN(v) \/ v[1] = 0 THEN I(2) ELSE v

\* Number.isFinite(v) ? v : d
FiniteOr(v, d) == IF IsNaN(v) THEN d ELSE v

\* const result = { action: 'on', carrier1: 312.5, beat1: 5, ... } (carrier and beat
\* scaled like the constructor's frequencies)
ParseDefaults ==
    [ action |-> "on", carrier1 |-> Q(5, 2), beat1 |-> I(1), carrier2 |-> null,
      beat2 |-> null, fade |-> I(2), fadeIn |-> null, volume |-> Q(15, 100),
      iso |-> FALSE, interleave |-> I(0), band2Mix |-> Q(1, 2) ]

\* Math.min(0.8, Number.isFinite(v) ? v : 0.15)
ParseVolume(v) == RMin(Q(4, 5), FiniteOr(v, Q(15, 100)))

\* the body of for (const p of parts)
ParsePart(st, p) ==
    CASE p.key = "fadeIn:" -> [st EXCEPT !.result.fadeIn = OrTwo(p.val)]
      [] p.key = "fade:" -> [st EXCEPT !.result.fade = OrTwo(p.val)]
      [] p.key = "vol:" -> [st EXCEPT !.result.volume = ParseVolume(p.val)]
      [] p.key = "iso" -> [st EXCEPT !.result.iso = TRUE]
      [] p.key = "interleave:" ->
            [st EXCEPT !.result.interleave =
                           RMax(I(0), RMin(I(200), FiniteOr(p.val, I(100)))),
                       !.interleaveExplicit = TRUE]
      [] p.key = "mix:" ->
            [st EXCEPT !.result.band2Mix =
                           RMin(I(1), RMax(I(0), FiniteOr(p.val, Q(1, 2))))]
      [] OTHER ->
            IF IsNaN(p.val) THEN st
            ELSE [st EXCEPT
                    !.numericIndex = st.numericIndex + 1,
                    !.result =
                        CASE st.numericIndex = 0 -> [st.result EXCEPT !.carrier1 = p.val]
                          [] st.numericIndex = 1 -> [st.result EXCEPT !.beat1 = p.val]
                          [] st.numericIndex = 2 -> [st.result EXCEPT !.carrier2 = p.val]
                          [] st.numericIndex = 3 -> [st.result EXCEPT !.beat2 = p.val]
                          [] OTHER -> st.result]

RECURSIVE ParseParts(_, _)
ParseParts(st, parts) ==
    IF parts = <<>> THEN st ELSE ParseParts(ParsePart(st, Head(parts)), Tail(parts))

\* HybridBinauralEngine.parseCommand(args)
parseCommand(args) ==
    IF Len(args) > 0 /\ args[1].key = "off"
    THEN [ParseDefaults EXCEPT !.action = "off"]
    ELSE LET st == ParseParts([ result |-> ParseDefaults, numericIndex |-> 0,
                                interleaveExplicit |-> FALSE ], args)
             r == IF st.result.fadeIn = null
                  THEN [st.result EXCEPT !.fadeIn = st.result.fade]
                  ELSE st.result
         IN  IF r.iso /\ ~st.interleaveExplicit THEN [r EXCEPT !.interleave = I(100)]
             ELSE r

\* ------------------------------------------------- host-side actions
\* A posted message is handled by the processor before the sample that follows it:
\* posting and handling are one step (the port keeps the order of the messages).

\* engine.start(...): init() creates the node, the message is posted, isPlaying is set
Start(carrier1, beat1, carrier2, beat2, options) ==
    /\ Deliver(IF engine.kind = "hybrid"
               THEN start(engine.isPlaying, carrier1, beat1, carrier2, beat2, options)
               ELSE BinauralEngine_start(engine.isPlaying, carrier1, beat1, carrier2,
                                         beat2, options))
    /\ engine' = [engine EXCEPT !.node = TRUE, !.isPlaying = TRUE]
    /\ call' = [ op |-> "start", carrier1 |-> carrier1, beat1 |-> beat1,
                 carrier2 |-> carrier2, beat2 |-> beat2, options |-> options ]
    /\ UNCHANGED <<audioState, rsvp, page, spiral>>

\* engine.setFrequencies(...); if (!this.node) return
SetFrequencies(carrier1, beat1, carrier2, beat2, seconds) ==
    /\ engine.node
    /\ Deliver(setFrequencies(carrier1, beat1, carrier2, beat2, seconds))
    /\ call' = [ op |-> "setFrequencies", carrier1 |-> carrier1, beat1 |-> beat1,
                 carrier2 |-> carrier2, beat2 |-> beat2 ]
    /\ UNCHANGED <<engine, audioState, rsvp, page, spiral>>

\* engine.setIsoEnabled(enabled), of HybridBinauralEngine only
SetIsoEnabled(enabled) ==
    /\ engine.node /\ engine.kind = "hybrid"
    /\ Deliver(setIsoEnabled(enabled))
    /\ call' = [op |-> "setIsoEnabled", enabled |-> enabled]
    /\ UNCHANGED <<engine, audioState, rsvp, page, spiral>>

\* engine.setInterleave(ms)
SetInterleave(ms) ==
    /\ engine.node
    /\ Deliver(setInterleave(ms))
    /\ call' = [op |-> "setInterleave", ms |-> ms]
    /\ UNCHANGED <<engine, audioState, rsvp, page, spiral>>

\* engine.setBand2Mix(mix)
SetBand2Mix(mix) ==
    /\ engine.node
    /\ Deliver(setBand2Mix(mix))
    /\ call' = [op |-> "setBand2Mix", mix |-> mix]
    /\ UNCHANGED <<engine, audioState, rsvp, page, spiral>>

\* engine.fadeTo(volume, seconds)
FadeTo(volume, seconds) ==
    /\ engine.node
    /\ Deliver(fadeTo(volume, seconds))
    /\ call' = [op |-> "fadeTo", volume |-> volume, seconds |-> seconds]
    /\ UNCHANGED <<engine, audioState, rsvp, page, spiral>>

\* engine.stop(fade)
Stop(fade) ==
    /\ engine.node
    /\ Deliver(stop(fade))
    /\ engine' = [engine EXCEPT !.isPlaying = FALSE]
    /\ call' = [op |-> "stop", fade |-> fade]
    /\ UNCHANGED <<audioState, rsvp, page, spiral>>

\* onBinaural2: (args) => { ... }, the page's handler of an @binaural2 command
OnBinaural2(args) ==
    /\ engine.kind = "hybrid"
    /\ \E params \in {parseCommand(args)} :
         IF params.action = "off"
         THEN /\ IF engine.node
                 THEN /\ Deliver(stop(params.fade))
                      /\ engine' = [engine EXCEPT !.isPlaying = FALSE]
                      /\ call' = [op |-> "onBinaural2", args |-> args, params |-> params]
                 ELSE UNCHANGED <<this, out, hist, last, msg, nMsgs, sinceGain,
                                  sinceInterleave, engine, call>>
              /\ audioState' = [audioState EXCEPT !.active = FALSE, !.volume = I(0)]
         ELSE /\ Deliver(start(engine.isPlaying, params.carrier1, params.beat1,
                               params.carrier2, params.beat2,
                               [ fade |-> params.fade, fadeIn |-> params.fadeIn,
                                 volume |-> params.volume, iso |-> params.iso,
                                 interleave |-> params.interleave,
                                 band2Mix |-> params.band2Mix ]))
              /\ engine' = [engine EXCEPT !.node = TRUE, !.isPlaying = TRUE]
              /\ audioState' =
                    [ active |-> TRUE, carrier1 |-> params.carrier1,
                      beat1 |-> params.beat1, carrier2 |-> params.carrier2,
                      beat2 |-> params.beat2, volume |-> params.volume,
                      iso |-> params.iso, interleave |-> params.interleave,
                      band2Mix |-> params.band2Mix ]
              /\ call' = [op |-> "onBinaural2", args |-> args, params |-> params]
    /\ UNCHANGED <<rsvp, page, spiral>>

\* ------------------------------------------------- host-side inputs
\* volumes: negative, the default, and above the ceiling
Volumes == {I(-1), Q(3, 20), Q(9, 10)}

\* start(...) calls: <<carrier1, beat1, carrier2, beat2, options>>
StartCalls ==
    {<<I(3), I(2), null, null, [volume |-> v, fade |-> Q(1, 10)]>> : v \in Volumes}
    \cup { <<I(3), I(2), I(1), I(1),
             [ volume |-> Q(3, 20), iso |-> TRUE, interleave |-> I(100),
               band2Mix |-> Q(1, 4), fade |-> Q(1, 10), fadeIn |-> Q(1, 20) ]>>,
           <<I(1), I(4), null, null,
             [interleave |-> I(500), band2Mix |-> I(2), fade |-> Q(1, 10)]>>,
           <<I(3), I(-2), null, I(1), [iso |-> TRUE, fade |-> Q(1, 10)]>>,
           <<I(3), I(2), null, null, [x \in {} |-> 0]>> }

\* setFrequencies(...) calls: <<carrier1, beat1, carrier2, beat2>>
FrequencyCalls ==
    { <<I(3), I(2), null, null>>, <<I(1), I(4), null, null>>,
      <<I(3), I(2), I(0), I(-1)>> }

\* @binaural2 command strings, as parts
Commands ==
    { <<>>,
      <<Token("off", NaN)>>,
      <<Token("", I(1)), Token("", I(4))>>,
      <<Token("", I(3)), Token("", I(-2)), Token("iso", NaN)>>,
      <<Token("vol:", I(2)), Token("fade:", Q(1, 10))>>,
      <<Token("vol:", I(-1)), Token("fade:", Q(1, 10))>>,
      <<Token("iso", NaN), Token("interleave:", I(50)), Token("fade:", Q(1, 10))>>,
      <<Token("interleave:", I(200)), Token("fade:", Q(1, 10))>>,
      <<Token("interleave:", I(500)), Token("fadeIn:", Q(1, 20))>>,
      <<Token("interleave:", I(-5)), Token("mix:", I(2))>>,
      <<Token("", I(3)), Token("", I(2)), Token("", I(1)), Token("", I(1)),
        Token("mix:", NaN), Token("fade:", Q(1, 10))>> }

\* ------------------------------------------- host-side specifications
InitApi ==
    /\ this = Constructor
    /\ engine \in {EngineConstructor(k) : k \in {"hybrid", "binaural"}}
    /\ audioState = AudioStateInit
    /\ Observers
    /\ PlaybackInit

\* the calls of the engines' API and the page's @binaural2 handler, with samples
NextApi ==
    \/ \E c \in StartCalls : Start(c[1], c[2], c[3], c[4], c[5])
    \/ \E c \in FrequencyCalls : SetFrequencies(c[1], c[2], c[3], c[4], Q(1, 4))
    \/ \E b \in BOOLEAN : SetIsoEnabled(b)
    \/ \E ms \in {I(-100), I(200), I(500)} : SetInterleave(ms)
    \/ \E m \in {I(-1), I(2)} : SetBand2Mix(m)
    \/ \E v \in Volumes : FadeTo(v, Q(1, 10))
    \/ Stop(Q(1, 10))
    \/ \E args \in Commands : OnBinaural2(args)
    \/ Sample

SpecApi == InitApi /\ [][NextApi]_vars

\* parseCommand on its own: the parts are drawn from ParseTokens
ParseTokens ==
    { Token("off", NaN), Token("iso", NaN), Token("", NaN),
      Token("", I(3)), Token("", I(-2)),
      Token("vol:", I(2)), Token("vol:", I(-1)), Token("vol:", Q(1, 2)), Token("vol:", NaN),
      Token("interleave:", I(500)), Token("interleave:", I(-5)),
      Token("interleave:", I(50)), Token("interleave:", NaN),
      Token("mix:", I(2)), Token("mix:", I(-1)), Token("mix:", NaN),
      Token("fade:", I(0)), Token("fadeIn:", Q(1, 2)) }

MaxParts == 2

InitParse ==
    /\ this = Constructor
    /\ engine = EngineConstructor("hybrid")
    /\ audioState = AudioStateInit
    /\ out = [ s1L |-> I(0), s1R |-> I(0), s2L |-> I(0), s2R |-> I(0),
               mixL |-> I(0), mixR |-> I(0), delayed |-> FALSE, readPos |-> 0,
               delayedR |-> I(0), L |-> I(0), R |-> I(0) ]
    /\ hist = <<>> /\ last = "init" /\ msg = [x \in {} |-> 0] /\ nMsgs = 0
    /\ sinceGain = 0 /\ sinceInterleave = 0
    /\ PlaybackInit
    /\ \E n \in 0..MaxParts :
         call \in {[op |-> "args", args |-> a] : a \in [1..n -> ParseTokens]}

\* const params = HybridBinauralEngine.parseCommand(args)
ParseCommand ==
    /\ call.op = "args"
    /\ call' = [op |-> "parseCommand", args |-> call.args, params |-> parseCommand(call.args)]
    /\ UNCHANGED <<this, out, hist, last, msg, nMsgs, sinceGain, sinceInterleave,
                   engine, audioState, rsvp, page, spiral>>

NextParse == ParseCommand

SpecParse == InitParse /\ [][NextParse]_vars

\* ------------------------------------------------------------- ORP
\* A word is the sequence of its characters.

\* [a-zA-Z]
AsciiLetters ==
    { "a", "b", "c", "d", "e", "f", "g", "h", "i", "j", "k", "l", "m", "n", "o", "p",
      "q", "r", "s", "t", "u", "v", "w", "x", "y", "z", "A", "B", "C", "D", "E", "F",
      "G", "H", "I", "J", "K", "L", "M", "N", "O", "P", "Q", "R", "S", "T", "U", "V",
      "W", "X", "Y", "Z" }

IsAsciiLetter(c) == c \in AsciiLetters

\* word.replace(/[^a-zA-Z]/g, '')
CleanWord(word) == SelectSeq(word, IsAsciiLetter)

\* ORP.getIndex(word)
getIndex(word) ==
    LET len == Len(CleanWord(word))
    IN  IF len <= 1 THEN 0
        ELSE IF len <= 4 THEN 1
        ELSE IF len <= 8 THEN 2
        ELSE IF len <= 13 THEN 3
        ELSE 4

\* ORP.split(word): { before, orp, after }
split(word) ==
    IF Len(word) = 0 THEN [before |-> <<>>, orp |-> <<>>, after |-> <<>>]
    ELSE LET index == getIndex(word)
         IN  [ before |-> SubSeq(word, 1, index),
               orp |-> IF index < Len(word) THEN <<word[index + 1]>> ELSE <<>>,
               after |-> SubSeq(word, index + 2, Len(word)) ]

\* the words ORP is asked about: lead characters that are no letters, n letters, and
\* tail punctuation
MaxLetters == 15

Repeat(c, n) == [i \in 1..n |-> c]

OrpWords ==
    { lead \o Repeat("a", n) \o tail :
        lead \in {<<>>, <<"(">>}, n \in 0..MaxLetters, tail \in {<<>>, <<".">>, <<"'", "s">>} }

InitOrp ==
    /\ this = Constructor
    /\ engine = EngineConstructor("hybrid")
    /\ audioState = AudioStateInit
    /\ out = [ s1L |-> I(0), s1R |-> I(0), s2L |-> I(0), s2R |-> I(0),
               mixL |-> I(0), mixR |-> I(0), delayed |-> FALSE, readPos |-> 0,
               delayedR |-> I(0), L |-> I(0), R |-> I(0) ]
    /\ hist = <<>> /\ last = "init" /\ msg = [x \in {} |-> 0] /\ nMsgs = 0
    /\ sinceGain = 0 /\ sinceInterleave = 0
    /\ PlaybackInit
    /\ call \in {[op |-> "word", word |-> w] : w \in OrpWords}

\* const parts = ORP.split(wordObj.word), and the index it splits at
Split ==
    /\ call.op = "word"
    /\ call' = [ op |-> "split", word |-> call.word, index |-> getIndex(call.word),
                 parts |-> split(call.word) ]
    /\ UNCHANGED <<this, out, hist, last, msg, nMsgs, sinceGain, sinceInterleave,
                   engine, audioState, rsvp, page, spiral>>

NextOrp == Split

SpecOrp == InitOrp /\ [][NextOrp]_vars

\* ---------------------------------------------------- SpiralEffect
\* parseFloat(...) || 1
OrOne(v) == IF IsNaN(v) \/ v[1] = 0 THEN I(1) ELSE v

\* the body of for (const part of parts) in the 'on' branch; key is "#" for a
\* colour, "fade:" for a fade, and "" otherwise (val is parseFloat's reading)
SpiralParsePart(result, p) ==
    CASE p.key = "#" -> result
      [] p.key = "fade:" -> [result EXCEPT !.fade = OrOne(p.val)]
      [] OTHER -> IF IsNaN(p.val) THEN result
                  ELSE IF RLe(p.val, I(1)) THEN [result EXCEPT !.opacity = p.val]
                  ELSE [result EXCEPT !.speed = p.val]

RECURSIVE SpiralParseParts(_, _)
SpiralParseParts(result, parts) ==
    IF parts = <<>> THEN result
    ELSE SpiralParseParts(SpiralParsePart(result, Head(parts)), Tail(parts))

\* the loop of the 'off' branch: for (let i = 1; ...) if (parts[i].startsWith('fade:'))
RECURSIVE SpiralParseOff(_, _)
SpiralParseOff(result, parts) ==
    IF parts = <<>> THEN result
    ELSE SpiralParseOff(IF Head(parts).key = "fade:"
                        THEN [result EXCEPT !.fade = OrOne(Head(parts).val)]
                        ELSE result, Tail(parts))

\* SpiralEffect.parseCommand(args)
SpiralEffect_parseCommand(args) ==
    LET result == [action |-> "on", opacity |-> Q(3, 10), speed |-> I(1), fade |-> I(1)]
    IN  IF Len(args) > 0 /\ args[1].key = "off"
        THEN SpiralParseOff([result EXCEPT !.action = "off"], Tail(args))
        ELSE IF Len(args) > 0 /\ args[1].key = "on"
             THEN SpiralParseParts(result, Tail(args))
             ELSE SpiralParseParts(result, args)

\* the opacity fade of animate(): fadeStep = delta / fadeSpeed, then Math.min or
\* Math.max against the target. With fadeSpeed 0 the step is Infinity (the target is
\* reached at once), or NaN when delta is 0 too
FadeOpacity(sp, delta) ==
    IF sp.currentOpacity = sp.targetOpacity /\ ~IsNaN(sp.currentOpacity)
    THEN sp.currentOpacity
    ELSE IF IsNaN(sp.fadeSpeed) \/ IsNaN(sp.currentOpacity) \/ IsNaN(sp.targetOpacity)
         THEN NaN
    ELSE IF sp.fadeSpeed[1] = 0
         THEN IF delta[1] = 0 THEN NaN ELSE sp.targetOpacity
    ELSE LET fadeStep == RDiv(delta, sp.fadeSpeed)
         IN  IF RLt(sp.currentOpacity, sp.targetOpacity)
             THEN RMin(sp.targetOpacity, RAdd(sp.currentOpacity, fadeStep))
             ELSE RMax(sp.targetOpacity, RSub(sp.currentOpacity, fadeStep))

\* animate(), delta seconds after the previous call: the effect after it
animate(sp, delta) ==
    IF ~sp.isRunning THEN [sp EXCEPT !.frame = FALSE]
    ELSE LET opacity == FadeOpacity(sp, delta)
         IN  IF opacity = I(0) /\ sp.targetOpacity = I(0)
             THEN [sp EXCEPT !.currentOpacity = opacity, !.isRunning = FALSE,
                             !.frame = FALSE]
             ELSE [sp EXCEPT !.currentOpacity = opacity, !.frame = TRUE]

\* start(color, opacity, speed, fade); the first animate() runs in the call, with
\* lastTime just taken
SpiralEffect_start(sp, opacity, speed, fade) ==
    LET s == [sp EXCEPT !.targetOpacity = opacity, !.speed = speed, !.fadeSpeed = fade]
    IN  IF ~s.isRunning THEN animate([s EXCEPT !.isRunning = TRUE], I(0)) ELSE s

\* stop(fade)
SpiralEffect_stop(sp, fade) == [sp EXCEPT !.targetOpacity = I(0), !.fadeSpeed = fade]

\* onSpiral: (args) => { ... }, the page's handler of an @spiral command
onSpiral(sp, args) ==
    Only({ IF params.action = "off" THEN SpiralEffect_stop(sp, params.fade)
           ELSE SpiralEffect_start(sp, params.opacity, params.speed, params.fade)
           : params \in {SpiralEffect_parseCommand(args)} })

\* @spiral command strings, as parts
SpiralCommands ==
    { <<Token("on", NaN), Token("#", NaN), Token("", Q(3, 10)), Token("", Q(1, 2)),
        Token("fade:", I(2))>>,
      <<Token("", I(1)), Token("fade:", Q(1, 2))>>,
      <<Token("", Q(-1, 2))>>,
      <<Token("", I(0)), Token("fade:", I(0))>>,
      <<Token("on", NaN), Token("fade:", I(-1))>>,
      <<Token("off", NaN)>>,
      <<Token("off", NaN), Token("fade:", Q(1, 2))>>,
      <<Token("off", NaN), Token("fade:", I(-1))>>,
      <<Token("off", NaN), Token("fade:", NaN)>> }

\* seconds between two animation frames
FrameDeltas == {Q(1, 10), Q(1, 5)}

\* opacities stay within this many units of 0 in the model
MaxOpacity == 2

InitSpiral ==
    /\ this = Constructor
    /\ engine = EngineConstructor("hybrid")
    /\ audioState = AudioStateInit
    /\ Observers
    /\ PlaybackInit

\* an @spiral command of the script reaches the page's handler
OnSpiral(args) ==
    /\ spiral' = onSpiral(spiral, args)
    /\ call' = [ op |-> "onSpiral", args |-> args,
                 params |-> SpiralEffect_parseCommand(args), animated |-> FALSE ]
    /\ UNCHANGED <<this, out, hist, last, msg, nMsgs, sinceGain, sinceInterleave,
                   engine, audioState, rsvp, page>>

\* the browser runs the requested animation frame: () => this.animate()
AnimationFrame(delta) ==
    /\ spiral.frame
    /\ IsNaN(spiral.currentOpacity) \/ RLe(RAbs(spiral.currentOpacity), I(MaxOpacity))
    /\ spiral' = animate(spiral, delta)
    /\ call' = [call EXCEPT !.animated = TRUE]
    /\ UNCHANGED <<this, out, hist, last, msg, nMsgs, sinceGain, sinceInterleave,
                   engine, audioState, rsvp, page>>

NextSpiral ==
    \/ \E args \in SpiralCommands : OnSpiral(args)
    \/ \E delta \in FrameDeltas : AnimationFrame(delta)

SpecSpiral == InitSpiral /\ [][NextSpiral]_vars

\* ------------------------------------------------------- RSVPEngine
\* A line of a script, trimmed, is [head, args]. head is the command word the line
\* starts with ("@wpm", "@spiral", "@subliminals", "@snap", "@binaural",
\* "@binaural2", "@noise") or "" for a line of text. args is what follows the
\* command word: <<n>> for the digits of @wpm and @snap (<<>> without digits), the
\* parts of the argument string for the other commands; for a line of text, the
\* words, each the sequence of its characters.
Line(head, args) == [head |-> head, args |-> args]

\* the commands whose pattern asks for an argument: /^@spiral\s+(.+)/i and the like
ArgCommands == {"@spiral", "@subliminals", "@binaural", "@binaural2", "@noise"}

\* type: 'spiral' ... of the command pushed for a line
CommandType(head) ==
    CASE head = "@spiral" -> "spiral"
      [] head = "@subliminals" -> "subliminals"
      [] head = "@snap" -> "snap"
      [] head = "@binaural" -> "binaural"
      [] head = "@binaural2" -> "binaural2"
      [] head = "@noise" -> "noise"

\* the characters of a command word, for a line that matches no pattern
HeadWord(head) ==
    CASE head = "@wpm" -> <<"@", "w", "p", "m">>
      [] head = "@spiral" -> <<"@", "s", "p", "i", "r", "a", "l">>
      [] head = "@subliminals" ->
            <<"@", "s", "u", "b", "l", "i", "m", "i", "n", "a", "l", "s">>
      [] head = "@binaural" -> <<"@", "b", "i", "n", "a", "u", "r", "a", "l">>
      [] head = "@binaural2" -> <<"@", "b", "i", "n", "a", "u", "r", "a", "l", "2">>
      [] head = "@noise" -> <<"@", "n", "o", "i", "s", "e">>

\* trimmed.split(/\s+/).filter(w => w.length > 0), of a line that is no command
LineWords(line) == IF line.head = "" THEN line.args ELSE <<HeadWord(line.head)>>

\* for (let i = 0; i < lineWords.length; i++): the word objects of one line, the
\* pending commands attached to the first
WordObjects(lineWords, currentWPM, pendingCommands) ==
    [ i \in 1..Len(lineWords) |->
        IF i = 1 /\ Len(pendingCommands) > 0
        THEN [word |-> lineWords[i], wpm |-> currentWPM, commands |-> pendingCommands]
        ELSE [word |-> lineWords[i], wpm |-> currentWPM] ]

\* the body of for (const line of lines) in parse
ParseLine(st, line) ==
    IF line.head = "@wpm" /\ line.args # <<>>
    THEN [st EXCEPT !.currentWPM = line.args[1]]
    ELSE IF line.head \in ArgCommands /\ line.args # <<>>
    THEN [st EXCEPT !.pendingCommands =
                        Append(@, [type |-> CommandType(line.head), args |-> line.args])]
    ELSE IF line.head = "@snap"
    THEN [st EXCEPT !.pendingCommands =
                        Append(@, [ type |-> "snap",
                                    pause |-> IF line.args = <<>> \/ line.args[1] = 0
                                              THEN 800 ELSE line.args[1] ])]
    ELSE LET lineWords == LineWords(line)
         IN  [st EXCEPT
                !.words = @ \o WordObjects(lineWords, st.currentWPM, st.pendingCommands),
                !.pendingCommands = IF Len(lineWords) > 0 THEN <<>> ELSE @]

RECURSIVE ParseLines(_, _)
ParseLines(st, lines) ==
    IF lines = <<>> THEN st ELSE ParseLines(ParseLine(st, Head(lines)), Tail(lines))

\* RSVPEngine.parse(text): the word objects (let currentWPM = this.wpm)
parse(wpm, lines) ==
    ParseLines([words |-> <<>>, currentWPM |-> wpm, pendingCommands |-> <<>>],
               lines).words

\* Math.round of a rational: the nearest integer, halves up
MathRound(a) == MathFloor(RAdd(a, Q(1, 2)))

\* word.slice(-1)
LastChar(word) == IF Len(word) = 0 THEN "" ELSE word[Len(word)]

\* RSVPEngine.getInterval(wpm, word), in ms ('.!?'.includes('') is true; the em
\* dash and the en dash are the characters "emdash" and "endash")
getInterval(wpm, word) ==
    Only({ IF lastChar \in {"", ".", "!", "?"}
           THEN MathRound(RMul(I(baseInterval), I(2)))
           ELSE IF lastChar \in {",", ";", ":"}
           THEN MathRound(RMul(I(baseInterval), Q(7, 5)))
           ELSE IF lastChar \in {"emdash", "endash", "-"}
           THEN MathRound(RMul(I(baseInterval), Q(5, 4)))
           ELSE baseInterval
           : baseInterval \in {MathRound(Q(60000, wpm))}, lastChar \in {LastChar(word)} })

\* ------------------------------------------ the page's other engines
\* BinauralEngine.parseCommand(args) of the single-band engine: the body of the loop
BinauralParsePart(st, p) ==
    CASE p.key = "fadeIn:" -> [st EXCEPT !.result.fadeIn = OrTwo(p.val)]
      [] p.key = "fade:" -> [st EXCEPT !.result.fade = OrTwo(p.val)]
      [] p.key = "vol:" -> [st EXCEPT !.result.volume = ParseVolume(p.val)]
      [] OTHER ->
            IF IsNaN(p.val) THEN st
            ELSE CASE st.n = 0 -> [st EXCEPT !.result.carrier = p.val, !.n = 1]
                   [] st.n = 1 -> [st EXCEPT !.result.beat = p.val, !.n = 2]
                   [] OTHER -> st

RECURSIVE BinauralParseParts(_, _)
BinauralParseParts(st, parts) ==
    IF parts = <<>> THEN st
    ELSE BinauralParseParts(BinauralParsePart(st, Head(parts)), Tail(parts))

\* BinauralEngine.parseCommand(args)
BinauralEngine_parseCommand(args) ==
    LET result == [ action |-> "on", carrier |-> I(300), beat |-> I(10),
                    fade |-> I(2), fadeIn |-> null, volume |-> Q(15, 100) ]
    IN  IF Len(args) > 0 /\ args[1].key = "off"
        THEN [result EXCEPT !.action = "off"]
        ELSE LET r == BinauralParseParts([result |-> result, n |-> 0], args).result
             IN  IF r.fadeIn = null THEN [r EXCEPT !.fadeIn = r.fade] ELSE r

\* NoiseEngine.parseCommand(args): the loops over the parts
RECURSIVE NoiseParseParts(_, _, _)
NoiseParseParts(result, parts, off) ==
    IF parts = <<>> THEN result
    ELSE LET p == Head(parts)
         IN  NoiseParseParts(
                 IF p.key = "fade:" THEN [result EXCEPT !.fade = OrTwo(p.val)]
                 ELSE IF ~off /\ ~IsNaN(p.val) THEN [result EXCEPT !.volume = p.val]
                 ELSE result,
                 Tail(parts), off)

\* NoiseEngine.parseCommand(args)
NoiseEngine_parseCommand(args) ==
    LET result == [action |-> "on", volume |-> Q(15, 1000), fade |-> I(2)]
    IN  IF Len(args) > 0 /\ args[1].key = "off"
        THEN NoiseParseParts([result EXCEPT !.action = "off"], args, TRUE)
        ELSE NoiseParseParts(result, args, FALSE)

\* SubliminalEngine.parseCommand(args): the action and how many words there are (a
\* part is a word unless it starts with "fade:" or is a number up to 1; opacity and
\* fade only style the flashes)
SubliminalEngine_parseCommand(args) ==
    IF Len(args) > 0 /\ args[1].key = "off" THEN [action |-> "off", words |-> 0]
    ELSE [ action |-> "on",
           words |-> Cardinality({ i \in 1..Len(args) :
                                     /\ args[i].key # "fade:"
                                     /\ ~(/\ args[i].key = ""
                                          /\ ~IsNaN(args[i].val)
                                          /\ RLe(args[i].val, I(1))) }) ]

\* ------------------------------------------------- the page, playing
\* A handler of the page runs to its end before anything else happens, and calls
\* other handlers on its way. Each is a function from the state it finds to the
\* state it leaves: a world holds the value of every variable a handler can change.
World ==
    [ this |-> this, last |-> last, msg |-> msg, nMsgs |-> nMsgs,
      sinceGain |-> sinceGain, sinceInterleave |-> sinceInterleave,
      engine |-> engine, audioState |-> audioState, call |-> call,
      rsvp |-> rsvp, page |-> page, spiral |-> spiral ]

\* the state a handler leaves becomes the next state
Commit(w) ==
    /\ this' = w.this
    /\ last' = w.last
    /\ msg' = w.msg
    /\ nMsgs' = w.nMsgs
    /\ sinceGain' = w.sinceGain
    /\ sinceInterleave' = w.sinceInterleave
    /\ engine' = w.engine
    /\ audioState' = w.audioState
    /\ call' = w.call
    /\ rsvp' = w.rsvp
    /\ page' = w.page
    /\ spiral' = w.spiral
    /\ UNCHANGED <<out, hist>>

\* this.node.port.postMessage(d) of the hybrid engine: the processor handles d
Post(world, d) ==
    Only({ [w EXCEPT !.this = HandleMessage(w.this, d),
                     !.msg = d,
                     !.nMsgs = @ + 1,
                     !.last = "message",
                     !.sinceGain = IF "gain" \in DOMAIN d THEN 0 ELSE @,
                     !.sinceInterleave = IF "interleaveMs" \in DOMAIN d THEN 0 ELSE @]
           : w \in {world} })

\* what the page asked of an audio engine: the engine, "start" or "stop", the
\* handler that asked (by), whether a snap pause was on, and the message posted
Sent(world, name, op, by, d) ==
    Only({ [w EXCEPT !.page.sent = Append(@, [ engine |-> name, op |-> op, by |-> by,
                                               snap |-> w.page.isSnapPause,
                                               msg |-> d ])]
           : w \in {world} })

\* setTimeout(callback, delay): the timeout is pending, due delay ms from now; its
\* id is the value of nextId before the call
setTimeout(world, kind, delay) ==
    Only({ [w EXCEPT !.page.timers = Append(@, [ id |-> w.page.nextId, kind |-> kind,
                                                 due |-> w.page.now + delay ]),
                     !.page.nextId = @ + 1]
           : w \in {world} })

\* clearTimeout(id): a no-op for a timeout that fired or was cleared already
clearTimeout(w, id) ==
    [w EXCEPT !.page.timers = SelectSeq(@, LAMBDA t : t.id # id)]

\* binaural2.start(carrier1, beat1, carrier2, beat2, options)
binaural2_start(world, carrier1, beat1, carrier2, beat2, options, by) ==
    Only({ Only({ Sent([Post(w, d) EXCEPT
                          !.engine.node = TRUE,
                          !.engine.isPlaying = TRUE,
                          !.call = [ op |-> "start", carrier1 |-> carrier1,
                                     beat1 |-> beat1, carrier2 |-> carrier2,
                                     beat2 |-> beat2, options |-> options ]],
                       "binaural2", "start", by, d)
                  : d \in {start(w.engine.isPlaying, carrier1, beat1, carrier2,
                                 beat2, options)} })
           : w \in {world} })

\* binaural2.stop(fade)
binaural2_stop(world, fade, by) ==
    Only({ IF ~w.engine.node THEN w
           ELSE Sent([Post(w, stop(fade)) EXCEPT
                        !.engine.isPlaying = FALSE,
                        !.call = [op |-> "stop", fade |-> fade]],
                     "binaural2", "stop", by, stop(fade))
           : w \in {world} })

\* binaural.start(carrier, beat, fade, fadeIn, volume) of the single-band engine
\* (node: init() has built the worklet node or the oscillators)
binaural_start(world, carrier, beat, fade, fadeIn, volume, by) ==
    Only({ Sent([w EXCEPT !.page.binaural = [node |-> TRUE, isPlaying |-> TRUE]],
                "binaural", "start", by,
                [ freqL |-> RSub(carrier, RDiv(beat, I(2))),
                  freqR |-> RAdd(carrier, RDiv(beat, I(2))),
                  gain |-> RMin(Q(4, 5), volume),
                  freqSmooth |-> fade,
                  gainSmooth |-> IF w.page.binaural.isPlaying THEN fade
                                 ELSE IF fadeIn # null THEN fadeIn ELSE fade ])
           : w \in {world} })

\* binaural.stop(fade)
binaural_stop(world, fade, by) ==
    Only({ IF ~w.page.binaural.node THEN w
           ELSE Sent([w EXCEPT !.page.binaural.isPlaying = FALSE],
                     "binaural", "stop", by, [gain |-> I(0), gainSmooth |-> fade])
           : w \in {world} })

\* noise.start(volume, fade)
noise_start(w, volume, fade, by) ==
    Sent([w EXCEPT !.page.noise = [node |-> TRUE, isPlaying |-> TRUE]],
         "noise", "start", by, [gain |-> RMin(Q(1, 2), volume), smooth |-> fade])

\* noise.stop(fade)
noise_stop(world, fade, by) ==
    Only({ IF ~w.page.noise.node THEN w
           ELSE Sent([w EXCEPT !.page.noise.isPlaying = FALSE],
                     "noise", "stop", by, [gain |-> I(0), smooth |-> fade])
           : w \in {world} })

\* onStateChange(true), binaural: restore it if it was active and is not playing
ResumeBinaural(world) ==
    Only({ IF /\ w.page.audio.binaural.active
              /\ RGt(w.page.audio.binaural.volume, I(0))
              /\ ~w.page.binaural.isPlaying
           THEN binaural_start(w, w.page.audio.binaural.carrier,
                               w.page.audio.binaural.beat, Q(1, 2), Q(1, 2),
                               w.page.audio.binaural.volume, "resume")
           ELSE w
           : w \in {world} })

\* onStateChange(true), binaural2 (audioState.binaural2 has no isoRate)
ResumeBinaural2(world) ==
    Only({ IF /\ w.audioState.active
              /\ RGt(w.audioState.volume, I(0))
              /\ ~w.engine.isPlaying
           THEN binaural2_start(w, w.audioState.carrier1, w.audioState.beat1,
                                w.audioState.carrier2, w.audioState.beat2,
                                [ fade |-> Q(1, 2), fadeIn |-> Q(1, 2),
                                  volume |-> w.audioState.volume,
                                  isoRate |-> Opt(w.audioState, "isoRate", null),
                                  band2Mix |-> w.audioState.band2Mix ],
                                "resume")
           ELSE w
           : w \in {world} })

\* onStateChange(true), noise
ResumeNoise(world) ==
    Only({ IF /\ w.page.audio.noise.active
              /\ RGt(w.page.audio.noise.volume, I(0))
              /\ ~w.page.noise.isPlaying
           THEN noise_start(w, w.page.audio.noise.volume, Q(1, 2), "resume")
           ELSE w
           : w \in {world} })

\* onStateChange: (playing) => { ... } (the play button is display only)
onStateChange(world, playing) ==
    Only({ IF ~playing /\ ~w.page.isSnapPause
           THEN noise_stop(binaural2_stop(binaural_stop(w, Q(1, 2), "pause"),
                                          Q(1, 2), "pause"),
                           Q(1, 2), "pause")
           ELSE IF playing THEN ResumeNoise(ResumeBinaural2(ResumeBinaural(w)))
           ELSE w
           : w \in {world} })

\* onComplete: () => { ... }
onComplete(w) ==
    [noise_stop(binaural2_stop(binaural_stop(w, I(2), "complete"), I(2), "complete"),
                I(2), "complete")
       EXCEPT !.page.completed = @ + 1]

\* RSVPEngine.pause()
pause(world) ==
    Only({ IF w.rsvp.timer # 0
           THEN [clearTimeout(w, w.rsvp.timer) EXCEPT !.rsvp.timer = 0]
           ELSE w
           : w \in {onStateChange([world EXCEPT !.rsvp.isPlaying = FALSE], FALSE)} })

\* onSnap: (pauseDuration) => { ... } (the sound, the flash and its 50 ms timeout
\* and the blanked word are display only)
onSnap(w, pauseDuration) ==
    setTimeout(pause([w EXCEPT !.page.isSnapPause = TRUE]), "snap", pauseDuration)

\* onBinaural: (args) => { ... }
onBinaural(w, args) ==
    Only({ IF params.action = "off"
           THEN [binaural_stop(w, params.fade, "command") EXCEPT
                   !.page.audio.binaural.active = FALSE,
                   !.page.audio.binaural.volume = I(0)]
           ELSE [binaural_start(w, params.carrier, params.beat, params.fade,
                                params.fadeIn, params.volume, "command") EXCEPT
                   !.page.audio.binaural =
                       [ active |-> TRUE, carrier |-> params.carrier,
                         beat |-> params.beat, volume |-> params.volume ]]
           : params \in {BinauralEngine_parseCommand(args)} })

\* onBinaural2: (args) => { ... }, on the state a handler finds
onBinaural2(w, args) ==
    Only({ IF params.action = "off"
           THEN [binaural2_stop(w, params.fade, "command") EXCEPT
                   !.audioState.active = FALSE, !.audioState.volume = I(0)]
           ELSE [binaural2_start(w, params.carrier1, params.beat1, params.carrier2,
                                 params.beat2,
                                 [ fade |-> params.fade, fadeIn |-> params.fadeIn,
                                   volume |-> params.volume, iso |-> params.iso,
                                   interleave |-> params.interleave,
                                   band2Mix |-> params.band2Mix ],
                                 "command") EXCEPT
                   !.audioState =
                       [ active |-> TRUE, carrier1 |-> params.carrier1,
                         beat1 |-> params.beat1, carrier2 |-> params.carrier2,
                         beat2 |-> params.beat2, volume |-> params.volume,
                         iso |-> params.iso, interleave |-> params.interleave,
                         band2Mix |-> params.band2Mix ]]
           : params \in {parseCommand(args)} })

\* onNoise: (args) => { ... }
onNoise(w, args) ==
    Only({ IF params.action = "off"
           THEN [noise_stop(w, params.fade, "command") EXCEPT
                   !.page.audio.noise.active = FALSE,
                   !.page.audio.noise.volume = I(0)]
           ELSE [noise_start(w, params.volume, params.fade, "command") EXCEPT
                   !.page.audio.noise = [active |-> TRUE, volume |-> params.volume]]
           : params \in {NoiseEngine_parseCommand(args)} })

\* onSubliminals: (args) => { ... }: subliminals.stop(fade) or subliminals.start(
\* opacity, fade, words), which returns early without words (the flashes and their
\* timeouts change the two subliminal elements only)
onSubliminals(w, args) ==
    Only({ IF params.action = "off" THEN [w EXCEPT !.page.subliminals = FALSE]
           ELSE IF params.words = 0 THEN w
           ELSE [w EXCEPT !.page.subliminals = TRUE]
           : params \in {SubliminalEngine_parseCommand(args)} })

\* the body of for (const cmd of wordObj.commands) in showWord; fired keeps the
\* commands whose callback was invoked
RunCommand(world, cmd) ==
    Only({ CASE cmd.type = "spiral" -> [w EXCEPT !.spiral = onSpiral(@, cmd.args)]
             [] cmd.type = "subliminals" -> onSubliminals(w, cmd.args)
             [] cmd.type = "snap" -> onSnap(w, cmd.pause)
             [] cmd.type = "binaural" -> onBinaural(w, cmd.args)
             [] cmd.type = "binaural2" -> onBinaural2(w, cmd.args)
             [] cmd.type = "noise" -> onNoise(w, cmd.args)
           : w \in {[world EXCEPT !.page.fired = Append(@, cmd)]} })

RECURSIVE RunCommands(_, _)
RunCommands(w, commands) ==
    IF commands = <<>> THEN w
    ELSE RunCommands(RunCommand(w, Head(commands)), Tail(commands))

\* showWord, after the commands: the wpm follows the script, onWord appends to shown
\* the index, the engine's wpm, the time, whether the engine was playing when
\* showWord was called, and the delay of the timeout scheduleNext set after it (-1
\* when it set none)
ShowWordAfterCommands(world, index, wordObj, live) ==
    Only({ [w EXCEPT !.page.shown =
                         Append(@, [ index |-> index, wpm |-> w.rsvp.wpm,
                                     at |-> w.page.now, live |-> live,
                                     interval |-> -1 ])]
           : w \in { IF world.rsvp.followScript /\ wordObj.wpm # world.rsvp.wpm
                     THEN [world EXCEPT !.rsvp.wpm = wordObj.wpm]
                     ELSE world } })

\* RSVPEngine.showWord(index)
showWord(world, index) ==
    Only({ IF index < 0 \/ index >= Len(w.rsvp.words) THEN w
           ELSE ShowWordAfterCommands(
                    IF "commands" \in DOMAIN w.rsvp.words[index + 1] /\ w.rsvp.isPlaying
                    THEN RunCommands(w, w.rsvp.words[index + 1].commands)
                    ELSE w,
                    index, w.rsvp.words[index + 1], w.rsvp.isPlaying)
           : w \in {world} })

\* scheduleNext, after showWord: this.currentIndex++; this.timer = setTimeout(...)
ScheduleTimeout(world, interval) ==
    Only({ setTimeout([w EXCEPT !.rsvp.currentIndex = @ + 1,
                                !.rsvp.timer = w.page.nextId,
                                !.page.shown[Len(w.page.shown)].interval = interval],
                      "word", interval)
           : w \in {world} })

\* RSVPEngine.scheduleNext()
scheduleNext(world) ==
    Only({ IF ~w.rsvp.isPlaying THEN w
           ELSE IF w.rsvp.currentIndex >= Len(w.rsvp.words) THEN onComplete(pause(w))
           ELSE ScheduleTimeout(
                    showWord(w, w.rsvp.currentIndex),
                    getInterval(IF w.rsvp.followScript
                                THEN w.rsvp.words[w.rsvp.currentIndex + 1].wpm
                                ELSE w.rsvp.manualWpm,
                                w.rsvp.words[w.rsvp.currentIndex + 1].word))
           : w \in {world} })

\* RSVPEngine.play()
play(world) ==
    Only({ IF Len(w.rsvp.words) = 0 \/ w.rsvp.isPlaying THEN w
           ELSE scheduleNext(onStateChange(
                    [w EXCEPT !.rsvp.currentIndex =
                                  IF @ >= Len(w.rsvp.words) THEN 0 ELSE @,
                              !.rsvp.isPlaying = TRUE],
                    TRUE))
           : w \in {world} })

\* RSVPEngine.toggle()
toggle(world) ==
    Only({IF w.rsvp.isPlaying THEN pause(w) ELSE play(w) : w \in {world}})

\* RSVPEngine.stop()
RSVPEngine_stop(w) == [pause(w) EXCEPT !.rsvp.currentIndex = 0]

\* RSVPEngine.load(text)
load(world, text) ==
    Only({ IF Len(w.rsvp.words) > 0 THEN showWord(w, 0) ELSE w
           : w \in { Only({ [w1 EXCEPT !.rsvp.words = parse(w1.rsvp.wpm, text),
                                       !.rsvp.currentIndex = 0]
                            : w1 \in {RSVPEngine_stop(world)} }) } })

\* ------------------------------------------------- scripts and steps
\* words, as characters
WordOne == <<"o", "n", "e">>
WordTwo == <<"t", "w", "o", ".">>
WordThree == <<"t", "h", "r", "e", "e">>
WordSleep == <<"S", "l", "e", "e", "p", ".">>
WordNow == <<"n", "o", "w", ",">>
WordDeeper == <<"d", "e", "e", "p", "e", "r">>

\* two speeds
ScriptWpm ==
    << Line("@wpm", <<600>>), Line("", <<WordOne, WordTwo>>),
       Line("@wpm", <<100>>), Line("", <<WordNow, WordThree>>) >>

\* every audio and visual command, switched on before the first word and off later
ScriptEffects ==
    << Line("@binaural2", <<Token("", I(3)), Token("", I(2)), Token("iso", NaN)>>),
       Line("@binaural", <<Token("", I(200)), Token("", I(8))>>),
       Line("@noise", <<Token("", Q(1, 10)), Token("fade:", I(3))>>),
       Line("@spiral", <<Token("on", NaN), Token("", Q(3, 10))>>),
       Line("@subliminals", <<Token("", Q(2, 5)), Token("", NaN)>>),
       Line("", <<WordOne, WordTwo>>),
       Line("@binaural", <<Token("off", NaN)>>),
       Line("@subliminals", <<Token("off", NaN)>>),
       Line("", <<WordThree>>) >>

\* commands after the last word, and an @wpm line without a number
ScriptTrailing ==
    << Line("@wpm", <<>>), Line("", <<WordOne>>),
       Line("@spiral", <<Token("off", NaN)>>), Line("@snap", <<>>) >>

\* a snap in the middle, with noise playing: the pause outlasts the word's interval
ScriptSnap ==
    << Line("@noise", <<Token("", Q(1, 10))>>), Line("", <<WordOne>>),
       Line("@snap", <<>>), Line("", <<WordTwo, WordThree>>) >>

\* a snap whose pause is shorter than the interval of its word
ScriptSnapShort ==
    << Line("@wpm", <<100>>), Line("@snap", <<1000>>),
       Line("", <<WordSleep, WordNow, WordDeeper>>) >>

\* a snap on the last word
ScriptSnapLast ==
    <<Line("", <<WordOne>>), Line("@snap", <<500>>), Line("", <<WordTwo>>)>>

ScriptNames == {"wpm", "effects", "trailing", "snap", "snapShort", "snapLast"}

Script(name) ==
    CASE name = "wpm" -> ScriptWpm
      [] name = "effects" -> ScriptEffects
      [] name = "trailing" -> ScriptTrailing
      [] name = "snap" -> ScriptSnap
      [] name = "snapShort" -> ScriptSnapShort
      [] name = "snapLast" -> ScriptSnapLast

\* words shown, and actions of the user, in one run
MaxShown == 8
MaxUserActs == 3

\* the page has loaded a script: rsvp.load(text) on the page as constructed;
\* page.script is the name of the script loaded
InitPage ==
    /\ out = [ s1L |-> I(0), s1R |-> I(0), s2L |-> I(0), s2R |-> I(0),
               mixL |-> I(0), mixR |-> I(0), delayed |-> FALSE, readPos |-> 0,
               delayedR |-> I(0), L |-> I(0), R |-> I(0) ]
    /\ hist = <<>>
    /\ \E name \in ScriptNames :
         \E w \in { load([ this |-> Constructor, last |-> "init",
                           msg |-> [x \in {} |-> 0], nMsgs |-> 0, sinceGain |-> 0,
                           sinceInterleave |-> 0,
                           engine |-> EngineConstructor("hybrid"),
                           audioState |-> AudioStateInit, call |-> [op |-> "none"],
                           rsvp |-> RSVPConstructor, page |-> PageInit,
                           spiral |-> SpiralConstructor ], Script(name)) } :
           /\ this = w.this
           /\ last = w.last
           /\ msg = w.msg
           /\ nMsgs = w.nMsgs
           /\ sinceGain = w.sinceGain
           /\ sinceInterleave = w.sinceInterleave
           /\ engine = w.engine
           /\ audioState = w.audioState
           /\ call = w.call
           /\ rsvp = w.rsvp
           /\ page = [w.page EXCEPT !.script = name]
           /\ spiral = w.spiral

\* btnPlay.addEventListener('click', () => rsvp.toggle()), and the Space key
Toggle ==
    /\ page.userActs < MaxUserActs
    /\ Len(page.shown) < MaxShown
    /\ \E w \in {toggle(World)} :
         Commit([w EXCEPT !.page.userActs = @ + 1,
                          !.page.lastAct = IF rsvp.isPlaying THEN "stop" ELSE "play"])

\* the restart and load buttons, before they restart or load: the effects stop
\* and audioState is reset (binaural2 with isoRate, without iso and interleave)
StopEffects(world, by) ==
    [noise_stop(binaural2_stop(binaural_stop(world, Q(3, 10), by), Q(3, 10), by),
                Q(3, 10), by)
       EXCEPT !.spiral = SpiralEffect_stop(@, Q(3, 10)),
              !.page.subliminals = FALSE,
              !.page.audio = [ binaural |-> [ active |-> FALSE, carrier |-> I(300),
                                              beat |-> I(10), volume |-> I(0) ],
                               noise |-> [active |-> FALSE, volume |-> I(0)] ],
              !.audioState = [ active |-> FALSE, carrier1 |-> Q(5, 2), beat1 |-> I(1),
                               carrier2 |-> null, beat2 |-> null, volume |-> I(0),
                               isoRate |-> I(0), band2Mix |-> Q(1, 2) ]]

\* RSVPEngine.restart()
restart(world) ==
    Only({ IF Len(w.rsvp.words) > 0 THEN showWord(w, 0) ELSE w
           : w \in {RSVPEngine_stop(world)} })

\* btnRestart.addEventListener('click', () => { ...; rsvp.restart(); })
Restart ==
    /\ page.userActs < MaxUserActs
    /\ Len(page.shown) < MaxShown
    /\ \E w \in {restart(StopEffects(World, "restart"))} :
         Commit([w EXCEPT !.page.userActs = @ + 1, !.page.lastAct = "stop"])

\* case 'KeyR': rsvp.restart()
KeyR ==
    /\ page.userActs < MaxUserActs
    /\ Len(page.shown) < MaxShown
    /\ \E w \in {restart(World)} :
         Commit([w EXCEPT !.page.userActs = @ + 1, !.page.lastAct = "stop"])

\* scripts the user loads from the editor
LoadNames == {"wpm", "snap"}

\* btnLoadScript.addEventListener('click', () => { ...; rsvp.load(text); ... }); the
\* button is disabled while the editor holds the script that is loaded
LoadScript(name) ==
    /\ name # page.script
    /\ page.userActs < MaxUserActs
    /\ Len(page.shown) < MaxShown
    /\ \E w \in {load(StopEffects(World, "load"), Script(name))} :
         Commit([w EXCEPT !.page.userActs = @ + 1, !.page.lastAct = "stop",
                          !.page.script = name])

\* the timeout that fires next: the earliest due, the first set among equals
NextTimer(timers) ==
    timers[CHOOSE i \in 1..Len(timers) :
             \A j \in 1..Len(timers) :
                \/ timers[i].due < timers[j].due
                \/ timers[i].due = timers[j].due /\ i <= j]

\* the state in which the callback of timeout t runs
Fire(w, t) ==
    [clearTimeout(w, t.id) EXCEPT !.page.now = t.due]

\* setTimeout(() => { this.scheduleNext(); }, interval) fires
WordTimeout ==
    /\ page.timers # <<>>
    /\ NextTimer(page.timers).kind = "word"
    /\ Len(page.shown) < MaxShown
    /\ \E w \in {scheduleNext(Fire(World, NextTimer(page.timers)))} : Commit(w)

\* setTimeout(() => { isSnapPause = false; rsvp.play(); }, pauseDuration) fires
SnapTimeout ==
    /\ page.timers # <<>>
    /\ NextTimer(page.timers).kind = "snap"
    /\ Len(page.shown) < MaxShown
    /\ \E w \in { play([Fire(World, NextTimer(page.timers)) EXCEPT
                          !.page.isSnapPause = FALSE]) } : Commit(w)

NextPage ==
    \/ Toggle
    \/ Restart
    \/ KeyR
    \/ \E name \in LoadNames : LoadScript(name)
    \/ WordTimeout
    \/ SnapTimeout

SpecPage == InitPage /\ [][NextPage]_vars

\* the event loop runs the callback of a timeout that is due
SpecPageFair == SpecPage /\ WF_vars(WordTimeout) /\ WF_vars(SnapTimeout)

\* -------------------------------------------------------------- claims
\* C1: the gain multiplied into each output sample lies in [0, 1], for any
\* sequence of gain messages (any gain, any gainSmooth) interleaved with samples.
C1_GainInUnitRange == RLe(I(0), this.gain) /\ RLe(this.gain, I(1))

\* C4: a gain message arriving at any moment, also in the middle of a ramp, starts
\* the new ramp (of positive duration) from the gain in effect at that moment: the
\* first sample after the message changes the gain by at most |end - gain| / duration.
C4_RampStartsFromCurrentGain ==
    [][(last' = "sample" /\ sinceGain = 0 /\ RGt(this.gainRampSamples, I(0)))
        => RLe(RAbs(RSub(this'.gain, this.gain)),
               RDiv(RAbs(RSub(this.gainEnd, this.gain)), this.gainRampSamples))]_vars

\* a ramp restarted in the middle of another: the first sample after a second gain
\* message whose start is neither 0 nor a clamped target
C4_Witness ==
    /\ last = "sample" /\ sinceGain = 1 /\ nMsgs = 2
    /\ RGt(this.gainRampSamples, I(0))
    /\ this.gainStart \notin {ClampGain(g) : g \in GainValues}
    /\ this.gain # this.gainStart

\* C5: k samples after a gain message with start s, end e and duration D (and no
\* later gain message) the gain is s + (e - s) * k / D while k <= D, and e afterwards.
C5_LinearRamp ==
    (last = "sample" /\ sinceGain >= 1)
        => this.gain =
             IF RLe(I(sinceGain), this.gainRampSamples)
             THEN RAdd(this.gainStart,
                       RMul(RSub(this.gainEnd, this.gainStart),
                            RDiv(I(sinceGain), this.gainRampSamples)))
             ELSE this.gainEnd

\* C2: after every sample each oscillator phase is in [0, tableSize), for any
\* sequence of frequency-target messages.
C2_PhaseInTable ==
    \A f \in Phases : RLe(I(0), this[f]) /\ RLt(this[f], I(tableSize))

\* C3: the delay-line read position is an index of delayBuffer at every sample, for
\* every interleaveMs that arrives in a message.
C3_ReadPosInBuffer ==
    (last = "sample" /\ out.delayed) => out.readPos \in 0..(Len(this.delayBuffer) - 1)

\* C6: with the delay target fixed at d samples (below the buffer length) and held
\* until the smoothed delay has settled, the right output before gain is the
\* pre-delay right mix of d samples earlier, and the left output is the left mix
\* of the same sample.
Settled ==
    RLt(RAbs(RSub(this.targetDelaySamples, this.delaySamples)), Q(1, 4))

C6_DelayCorrectness ==
    LET d == MathFloor(this.targetDelaySamples)
        n == Len(hist)
    IN  (last = "sample" /\ Settled /\ d \in 0..(Len(this.delayBuffer) - 1)
         /\ sinceInterleave > d /\ n > d)
            => out.delayedR = hist[n - d] /\ out.L = RMul(out.mixL, this.gain)

\* C7: handling a message changes only the state of the fields present in it; the
\* fields a message field sets:
FieldsSetBy(f) ==
    CASE f = "freq1L" -> {"targetFreq1L"}
      [] f = "freq1R" -> {"targetFreq1R"}
      [] f = "freq2L" -> {"targetFreq2L"}
      [] f = "freq2R" -> {"targetFreq2R"}
      [] f = "band2Enabled" -> {"band2Enabled"}
      [] f = "band2Mix" -> {"targetBand2Mix"}
      [] f = "isoEnabled" -> {"isoEnabled"}
      [] f = "interleaveMs" -> {"targetInterleaveMs", "targetDelaySamples"}
      [] f = "freqSmooth" -> {"freqSmooth"}
      [] f = "gain" -> {"gainStart", "gainEnd", "gainRampSamples", "gainRampProgress"}
      [] OTHER -> {}

MessageFields ==
    {"freq1L", "freq1R", "freq2L", "freq2R", "band2Enabled", "band2Mix", "isoEnabled",
     "interleaveMs", "freqSmooth", "gain", "gainSmooth"}

C7_SparseMerge ==
    [][last' = "message"
        => \A f \in MessageFields \ DOMAIN msg' :
             \A t \in FieldsSetBy(f) : this'[t] = this[t]]_vars

\* a message of gain and gainSmooth only, handled after another message has moved
\* the frequency, mix and delay targets and the flags off their defaults
C7_Witness ==
    /\ last = "message" /\ DOMAIN msg = {"gain", "gainSmooth"}
    /\ this.targetFreq1R # Constructor.targetFreq1R
    /\ this.targetBand2Mix # Constructor.targetBand2Mix
    /\ this.targetDelaySamples # Constructor.targetDelaySamples
    /\ this.band2Enabled /\ this.isoEnabled
    /\ this.freqSmooth # Constructor.freqSmooth

\* C8: with band 2 enabled, band2Mix in [0, 1] and band samples in [-1, 1], the mix
\* is (s1 + s2 * band2Mix) / (1 + band2Mix) and its magnitude is at most 1, on both
\* channels.
InUnit(x) == RLe(I(-1), x) /\ RLe(x, I(1))

C8_NoClip ==
    (/\ last = "sample" /\ this.band2Enabled
     /\ RLe(I(0), this.band2Mix) /\ RLe(this.band2Mix, I(1))
     /\ InUnit(out.s1L) /\ InUnit(out.s2L) /\ InUnit(out.s1R) /\ InUnit(out.s2R))
        => /\ out.mixL = RDiv(RAdd(out.s1L, RMul(out.s2L, this.band2Mix)),
                              RAdd(I(1), this.band2Mix))
           /\ out.mixR = RDiv(RAdd(out.s1R, RMul(out.s2R, this.band2Mix)),
                              RAdd(I(1), this.band2Mix))
           /\ InUnit(out.mixL) /\ InUnit(out.mixR)

\* the worst case: both bands at their peak, in phase, at full mix weight
C8_Witness ==
    /\ last = "sample" /\ this.band2Enabled
    /\ out.s1L = I(1) /\ out.s2L = I(1) /\ this.band2Mix = I(1)
    /\ out.mixL = I(1)

\* C9: on every sample each smoothed scalar moves toward its target by a fraction
\* strictly between 0 and 1 of the remaining distance, for any freqSmooth received:
\* it stays where it is at the target, and lands strictly between its old value and
\* the target otherwise.
Toward(v, target, w) ==
    IF v = target THEN w = v
    ELSE \/ RLt(v, w) /\ RLt(w, target)
         \/ RLt(target, w) /\ RLt(w, v)

TargetOf(f) ==
    CASE f = "freq1L" -> "targetFreq1L" [] f = "freq1R" -> "targetFreq1R"
      [] f = "freq2L" -> "targetFreq2L" [] f = "freq2R" -> "targetFreq2R"
      [] f = "band2Mix" -> "targetBand2Mix" [] OTHER -> "targetDelaySamples"

PhaseStep(p, q, freq) ==
    LET jump == RSub(RSub(q, p), RMul(freq, Q(tableSize, sampleRate)))
    IN  jump = I(0) \/ jump = I(-tableSize)

C10_PhaseContinuity ==
    [][/\ last' = "message" => \A f \in Phases : this'[f] = this[f]
       /\ last' = "sample" =>
            /\ PhaseStep(this.phase1L, this'.phase1L, this'.freq1L)
            /\ PhaseStep(this.phase1R, this'.phase1R, this'.freq1R)
            /\ IF this.band2Enabled
               THEN /\ PhaseStep(this.phase2L, this'.phase2L, this'.freq2L)
                    /\ PhaseStep(this.phase2R, this'.phase2R, this'.freq2R)
               ELSE this'.phase2L = this.phase2L /\ this'.phase2R = this.phase2R]_vars

\* a sample rendered with band 2 disabled after it had been enabled: its phases,
\* moved off 0 while it was enabled, have kept their value
C10_Witness ==
    /\ last = "sample" /\ ~this.band2Enabled /\ nMsgs = 2
    /\ this.phase2L # I(0) /\ this.phase2R # I(0)
    /\ "band2Enabled" \in DOMAIN msg

\* C11: once s * sampleRate samples have been rendered after a message
\* {gain: 0, gainSmooth: s} (and no gain message since), the gain is 0 and both
\* output samples are 0.
C11_StopSilence ==
    (/\ last = "sample" /\ sinceGain >= 1
     /\ DOMAIN msg = {"gain", "gainSmooth"} /\ msg.gain = I(0)
     /\ RGe(I(sinceGain), RMul(msg.gainSmooth, I(sampleRate))))
        => this.gain = I(0) /\ out.L = I(0) /\ out.R = I(0)

C13_IsoPhaseInRange ==
    last = "sample"
        => /\ RLe(I(0), this.isoPhase1) /\ RLt(this.isoPhase1, I(1))
           /\ RLe(I(0), this.isoPhase2) /\ RLt(this.isoPhase2, I(1))

\* C14 as stated: for any two messages handled before the same render block, either
\* order leaves the processor in the same state.
C14_AnyOrder ==
    [][last' = "message"
        => \A b \in Messages :
             HandleMessage(this', b) = HandleMessage(HandleMessage(this, b), msg')]_vars

\* C14, amended: for any two messages that have no field in common, handled before
\* the same render block, either order leaves the processor in the same state.
C14_DisjointOrder ==
    [][last' = "message"
        => \A b \in Messages :
             (DOMAIN b \cap DOMAIN msg' = {})
                => HandleMessage(this', b) = HandleMessage(HandleMessage(this, b), msg')]_vars

\* two messages handled before the first block: a glide time, then a gain without
\* gainSmooth
C14_Witness ==
    /\ last = "message" /\ nMsgs = 2 /\ Len(hist) = 0
    /\ DOMAIN msg = {"gain"}
    /\ this.freqSmooth = Q(3, 4)

\* C15: each scalar parameter has one target, the one of the newest message that
\* set it: a message replaces the target whatever transition is in flight (the gain
\* ramp restarts from the current gain), no sample changes a target, and every
\* sample moves the value toward that target: a smoothed value strictly closer to
\* it, the gain ramp one step further and onto the target once the ramp is over.
Targets ==
    {"targetFreq1L", "targetFreq1R", "targetFreq2L", "targetFreq2R", "targetBand2Mix",
     "targetInterleaveMs", "targetDelaySamples", "gainStart", "gainEnd",
     "gainRampSamples"}

Closer(v, target, w) ==
    IF v = target THEN w = target
    ELSE RLt(RAbs(RSub(target, w)), RAbs(RSub(target, v)))

C15_OnePendingTransition ==
    [][/\ last' = "message" =>
            /\ \A f \in {"freq1L", "freq1R", "freq2L", "freq2R", "band2Mix"} \cap DOMAIN msg' :
                 \A t \in FieldsSetBy(f) : this'[t] = msg'[f]
            /\ "interleaveMs" \in DOMAIN msg' =>
                 this'.targetDelaySamples =
                     I(MathFloor(RDiv(RMul(I(sampleRate), msg'.interleaveMs), I(1000))))
            /\ "gain" \in DOMAIN msg' =>
                 /\ this'.gainEnd = ClampGain(msg'.gain)
                 /\ this'.gainStart = this.gain
                 /\ this'.gainRampProgress = 0
       /\ last' = "sample" =>
            /\ \A t \in Targets : this'[t] = this[t]
            /\ \A f \in Smoothed : Closer(this[f], this[TargetOf(f)], this'[f])
            /\ IF RLt(I(this.gainRampProgress), this.gainRampSamples)
               THEN this'.gainRampProgress = this.gainRampProgress + 1
               ELSE this'.gain = this.gainEnd]_vars

\* a fade-out sent in the middle of a two-sample fade-in (the gain at 1/4 on its
\* way to 1/2): two samples later the gain is on the newest target
C15_Witness ==
    /\ last = "sample" /\ nMsgs = 2 /\ sinceGain = 2
    /\ DOMAIN msg = {"gain", "gainSmooth"}
    /\ this.gainStart = Q(1, 4) /\ this.gainEnd = I(0)
    /\ this.gain = I(0)

\* C16: after a gain message that asks for a ramp of zero or of less than one sample
\* (0 <= gainSmooth * sampleRate < 1), the gain is the clamped target on the first
\* sample after the message.
C16_SubSampleRampSnaps ==
    (/\ last = "sample" /\ sinceGain = 1
     /\ "gain" \in DOMAIN msg /\ "gainSmooth" \in DOMAIN msg
     /\ RLe(I(0), msg.gainSmooth) /\ RLt(RMul(msg.gainSmooth, I(sampleRate)), I(1)))
        => this.gain = ClampGain(msg.gain)

\* C17: every interleaveMs posted by the host side (start options, setInterleave,
\* the @binaural2 handler) gives a delay target strictly below the capacity of the
\* delay buffer, ceil(sampleRate * 0.2).
C17_DelayBelowCapacity ==
    (call.op \in {"start", "setInterleave", "onBinaural2"} /\ "interleaveMs" \in DOMAIN msg)
        => /\ this.targetDelaySamples =
                I(MathFloor(RDiv(RMul(I(sampleRate), msg.interleaveMs), I(1000))))
           /\ RLt(this.targetDelaySamples, I(Len(this.delayBuffer)))

\* C18: in every message built by the boundary layer (parseCommand and start,
\* setFrequencies, setBand2Mix) each oscillator frequency is greater than 0 and
\* band2Mix is in [0, 1].
C18_BoundaryInRange ==
    call.op \in {"start", "setFrequencies", "setBand2Mix", "onBinaural2"}
        => /\ \A f \in {"freq1L", "freq1R", "freq2L", "freq2R"} \cap DOMAIN msg :
                RGt(msg[f], I(0))
           /\ "band2Mix" \in DOMAIN msg =>
                RLe(I(0), msg.band2Mix) /\ RLe(msg.band2Mix, I(1))

\* C19: handling a message leaves the state the render loop owns as it was: the
\* oscillator and isochronic phases, the smoothed frequencies, mix and delay, the
\* current gain, the delay buffer and its write cursor.
RenderOwned ==
    Phases \cup Smoothed \cup {"isoPhase1", "isoPhase2", "gain", "delayBuffer", "delayWritePos"}

C19_HandlerFrame ==
    [][last' = "message" => \A f \in RenderOwned : this'[f] = this[f]]_vars

\* a start message (frequencies, flags, delay, mix and gain at once) handled while
\* the phases, the smoothed delay, the write cursor and the buffer's contents are
\* off their initial values
C19_Witness ==
    /\ last = "message" /\ nMsgs = 2
    /\ {"freq1L", "interleaveMs", "band2Mix", "gain"} \subseteq DOMAIN msg
    /\ this.phase1L # I(0) /\ this.phase1R # I(0)
    /\ this.delaySamples # I(0) /\ this.delayWritePos # 0
    /\ this.delayBuffer # Constructor.delayBuffer

\* C20: for every command string, parseCommand returns volume in [0, 0.8],
\* interleave in [0, 200] and band2Mix in [0, 1].
C20_ParsedRanges ==
    call.op = "parseCommand"
        => /\ RLe(I(0), call.params.volume) /\ RLe(call.params.volume, Q(4, 5))
           /\ RLe(I(0), call.params.interleave) /\ RLe(call.params.interleave, I(200))
           /\ RLe(I(0), call.params.band2Mix) /\ RLe(call.params.band2Mix, I(1))

\* C24: while the smoothed delay is 0 the delay stage passes the sample through: the
\* right output before gain is the pre-delay right mix of the same sample.
C24_ZeroDelayPassthrough ==
    (last = "sample" /\ this.delaySamples = I(0)) => out.delayedR = out.mixR

\* a sample with a non-zero right mix rendered at delay 0, the buffer untouched
C24_Witness ==
    /\ last = "sample" /\ this.delaySamples = I(0)
    /\ out.mixR # I(0) /\ out.delayedR = out.mixR
    /\ ~out.delayed /\ this.delayBuffer = Constructor.delayBuffer

\* C25: the smoothed mix level and the smoothed delay length do not depend on
\* freqSmooth. Two runs that get the same messages except for freqSmooth agree on
\* band2Mix, delaySamples and their targets after every step: a sample moves them
\* as it would from the state with any other freqSmooth, and a message sets them
\* as the same message with any other freqSmooth would.
SlowTrajectory == {"band2Mix", "delaySamples", "targetBand2Mix", "targetDelaySamples"}

WithFreqSmooth(d, fs) == [f \in DOMAIN d \cup {"freqSmooth"} |->
                             IF f = "freqSmooth" THEN fs ELSE d[f]]

C25_SlowIndependentOfFreqSmooth ==
    [][\A fs \in FreqSmoothValues :
         /\ last' = "sample" =>
              \E r \in {MixDelaySmooth([this EXCEPT !.freqSmooth = fs])} :
                  /\ r.band2Mix = this'.band2Mix
                  /\ r.delaySamples = this'.delaySamples
                  /\ \A f \in {"targetBand2Mix", "targetDelaySamples"} : this'[f] = this[f]
         /\ last' = "message" =>
              \E a \in {HandleMessage([this EXCEPT !.freqSmooth = fs], msg')},
                 b \in {HandleMessage(this, WithFreqSmooth(msg', fs))} :
                  \A f \in SlowTrajectory : a[f] = this'[f] /\ b[f] = this'[f]]_vars

\* a sample that moves the mix and the delay while freqSmooth is not the default
C25_Witness ==
    /\ last = "sample"
    /\ this.freqSmooth # Constructor.freqSmooth
    /\ this.band2Mix # Constructor.band2Mix /\ this.band2Mix # this.targetBand2Mix
    /\ this.delaySamples # I(0) /\ this.delaySamples # this.targetDelaySamples

\* C26: HybridBinauralEngine.start ramps the gain over fadeIn when the engine is not
\* playing and over fade when it is playing; without fadeIn it ramps over fade in
\* both cases. The engine is playing from a start to the next stop, and is not
\* playing before its first start.
StartStep == nMsgs' # nMsgs /\ call'.op = "start" /\ engine.kind = "hybrid"

FrequencyFields ==
    {"targetFreq1L", "targetFreq1R", "targetFreq2L", "targetFreq2R", "freqSmooth"}

C27_SetFrequenciesFrame ==
    [][(nMsgs' # nMsgs /\ call'.op = "setFrequencies")
          => \A f \in (DOMAIN this) \ FrequencyFields : this'[f] = this[f]]_vars

\* C23: the ORP index of a word is 0 when the word's length is at most 1, 1 when at
\* most 4, 2 when at most 8, 3 when at most 13 and 4 otherwise, the length being
\* that of the word as given (word.length).
C23_OrpIndexByWordLength ==
    call.op = "split"
        => call.index = (IF Len(call.word) <= 1 THEN 0
                         ELSE IF Len(call.word) <= 4 THEN 1
                         ELSE IF Len(call.word) <= 8 THEN 2
                         ELSE IF Len(call.word) <= 13 THEN 3
                         ELSE 4)

\* C30: after SpiralEffect.stop(fade) with no later start, every animation frame
\* lowers currentOpacity or leaves it, never below 0, and the frame that brings it
\* to 0 ends the loop: isRunning is false and no further frame is requested.
C30_SpiralFadesOut ==
    [][(call.op = "onSpiral" /\ call.params.action = "off" /\ call'.animated)
          => /\ RLe(spiral'.currentOpacity, spiral.currentOpacity)
             /\ RGe(spiral'.currentOpacity, I(0))
             /\ spiral'.currentOpacity = I(0) => (~spiral'.isRunning /\ ~spiral'.frame)]_vars

\* the command types of the command lines of a script, in script order
RECURSIVE CommandsOf(_)
CommandsOf(lines) ==
    IF lines = <<>> THEN <<>>
    ELSE LET line == Head(lines)
         IN  (IF line.head \in ArgCommands /\ line.args # <<>>
              THEN <<CommandType(line.head)>>
              ELSE IF line.head = "@snap" THEN <<"snap">> ELSE <<>>)
             \o CommandsOf(Tail(lines))

\* the types of a sequence of commands
TypesOf(commands) == [i \in 1..Len(commands) |-> commands[i].type]

\* the command types attached to the words, in word order
RECURSIVE AttachedTo(_)
AttachedTo(words) ==
    IF words = <<>> THEN <<>>
    ELSE (IF "commands" \in DOMAIN Head(words) THEN TypesOf(Head(words).commands)
          ELSE <<>>) \o AttachedTo(Tail(words))

IsPrefix(a, b) == Len(a) <= Len(b) /\ SubSeq(b, 1, Len(a)) = a

\* C21: every command line of the loaded script is attached to a word, each once
\* and in script order, and in a playthrough the user does not interrupt the
\* callbacks are invoked in script order, none twice, all of them by completion
C21_CommandsOncePerPlaythrough ==
    page.userActs <= 1 =>
        /\ AttachedTo(rsvp.words) = CommandsOf(Script(page.script))
        /\ IsPrefix(TypesOf(page.fired), CommandsOf(Script(page.script)))
        /\ page.completed > 0 => TypesOf(page.fired) = CommandsOf(Script(page.script))

\* whether a word carries a snap
HasSnap(wordObj) ==
    /\ "commands" \in DOMAIN wordObj
    /\ \E i \in 1..Len(wordObj.commands) : wordObj.commands[i].type = "snap"

\* C22: while followScript is true and the user does not interrupt, a word shown
\* during playback is shown at the wpm of its @wpm line, and the next word is shown
\* getInterval(N, word) ms later (the pause of a snap on the word apart)
C22_WordsPlayedAtScriptWpm ==
    (rsvp.followScript /\ page.userActs <= 1) =>
        \A k \in 1..Len(page.shown) :
            page.shown[k].live =>
                LET wordObj == rsvp.words[page.shown[k].index + 1]
                IN  /\ page.shown[k].wpm = wordObj.wpm
                    /\ (k < Len(page.shown) /\ ~HasSnap(wordObj)) =>
                          page.shown[k + 1].at - page.shown[k].at
                              = getInterval(wordObj.wpm, wordObj.word)

\* the binaural2 start the page sent last before its i-th call, by a command
LastCommandStart(i) ==
    CHOOSE j \in 1..(i - 1) :
        /\ page.sent[j].engine = "binaural2" /\ page.sent[j].op = "start"
        /\ page.sent[j].by = "command"
        /\ \A k \in (j + 1)..(i - 1) :
              ~(/\ page.sent[k].engine = "binaural2" /\ page.sent[k].op = "start"
                /\ page.sent[k].by = "command")

\* C28: the message a resume sends to binaural2 carries the frequencies, the gain,
\* iso, interleave and band2Mix of the message of the last @binaural2 command
C28_ResumeRestoresBinaural2 ==
    \A i \in 1..Len(page.sent) :
        (/\ page.sent[i].engine = "binaural2" /\ page.sent[i].op = "start"
         /\ page.sent[i].by = "resume") =>
            \A f \in DOMAIN page.sent[LastCommandStart(i)].msg
                        \ {"freqSmooth", "gainSmooth"} :
                /\ f \in DOMAIN page.sent[i].msg
                /\ page.sent[i].msg[f] = page.sent[LastCommandStart(i)].msg[f]

\* C29: while the user does not interfere, during a snap pause no stop is sent to
\* an audio engine and a word timeout shows nothing, and the timeout of the snap
\* shows the word that follows the snap word
C29_SnapPausesThenResumes ==
    [][page'.userActs <= 1 =>
          /\ \A i \in (Len(page.sent) + 1)..Len(page'.sent) :
                page'.sent[i].snap => page'.sent[i].op # "stop"
          /\ page.isSnapPause =>
                IF NextTimer(page.timers).kind = "snap"
                THEN /\ Len(page'.shown) = Len(page.shown) + 1
                     /\ page'.shown[Len(page'.shown)].index
                           = page.shown[Len(page.shown)].index + 1
                ELSE page'.shown = page.shown]_vars

\* C34: when the delay stage runs with k = floor(delaySamples) inside the buffer,
\* the value it reads is the pre-delay right mix produced k samples earlier
\* (silence before the first sample), whatever the delay did before.
C34_DelayLineReadsKStepsBack ==
    LET k == MathFloor(this.delaySamples)
        n == Len(hist)
    IN  (last = "sample" /\ out.delayed /\ k \in 0..(Len(this.delayBuffer) - 1))
            => out.delayedR = IF n - k >= 1 THEN hist[n - k] ELSE I(0)

\* the pending timeouts of scheduleNext
WordTimers == SelectSeq(page.timers, LAMBDA t : t.kind = "word")

\* C31: at most one timeout of scheduleNext is pending in every reachable state
C31_OneWordTimer == Len(WordTimers) <= 1

\* C32: after the user stopped playback (pause by toggle, restart, load), isPlaying
\* becomes true only in a step of the user
C32_StaysStopped ==
    [][(page.lastAct = "stop" /\ ~rsvp.isPlaying /\ rsvp'.isPlaying)
          => page'.userActs # page.userActs]_vars

\* the indexes of the words shown while playing, in the order shown
LiveIndexes ==
    LET live == SelectSeq(page.shown, LAMBDA e : e.live)
    IN  [i \in 1..Len(live) |-> live[i].index]

\* the words shown while playing are the first words of the script, each once and
\* in order
OnTrack == IsPrefix(LiveIndexes, [i \in 1..Len(rsvp.words) |-> i - 1])

\* C33: a playthrough the user started with play at the first word and did nothing
\* else ends: all words were shown once in order, onComplete ran once, playback
\* stopped and no timeout is pending (a playthrough that is still in order when
\* MaxShown words were shown is not held against the claim)
C33_PlaythroughCompletes ==
    (page.userActs = 1 /\ page.lastAct = "play")
        ~> \/ page.userActs > 1
           \/ /\ page.completed = 1
              /\ ~rsvp.isPlaying
              /\ page.timers = <<>>
              /\ LiveIndexes = [i \in 1..Len(rsvp.words) |-> i - 1]
           \/ Len(page.shown) >= MaxShown /\ OnTrack

=============================================================================
